---- MODULE Spec2Model ----
(***************************************************************************)
(* Model of the Coalesced / TLK codec (me3 coalesced parser).              *)
(*                                                                         *)
(* Representation of the Rust values:                                      *)
(*   u8                a number in 0..255                                  *)
(*   u32 / i32         the number in -2^31 .. 2^31-1 that has the same 32  *)
(*                     bits (a u32 of 2^31 or more is its value - 2^32);   *)
(*                     ULt is the unsigned order on that representation    *)
(*   usize             a natural number (every length here is below 2^31)  *)
(*   String            the sequence of its chars (code points)             *)
(*   Vec<u8>, &[u8]    a sequence of u8; element i of the slice is [i+1]   *)
(*   BitVec            a sequence of bits 0/1                              *)
(*   Result<T, E>      [ok |-> TRUE, val |-> T] or [ok |-> FALSE, err |-> E]*)
(*   a panic           the error kind "Panic"                              *)
(***************************************************************************)
EXTENDS Integers, Sequences, FiniteSets, TLC

VARIABLES
    overflow_checks, \* build profile: TRUE = arithmetic overflow panics
    pc,              \* position of the client program
    doc,             \* the Coalesced document handed to serialize_coalesced
    tlk,             \* the Tlk document handed to serialize_tlk
    out,             \* result of the last serialize call
    wire,            \* the bytes handed to the decoder
    accepted,        \* result of decoding the bytes before they were cut
    res,             \* result of the last deserialize call
    out2,            \* result of serializing the decoded document again
    res2,            \* result of decoding out2
    edit,            \* what was done to the bytes after they were written
    step             \* one packing of a value word: [ty, bit_offset, word, done]

vars == <<overflow_checks, pc, doc, tlk, out, wire, accepted, res, out2, res2,
         edit, step>>

----------------------------------------------------------------------------
(* Bits and bytes                                                          *)

Pow2(n) == 2 ^ n

RECURSIVE SumSeq(_)
SumSeq(s) == IF s = <<>> THEN 0 ELSE Head(s) + SumSeq(Tail(s))

RECURSIVE Flatten(_)
Flatten(ss) == IF ss = <<>> THEN <<>> ELSE Head(ss) \o Flatten(Tail(ss))

\* Bitwise operations on u8, bit by bit.
RECURSIVE BitOp8(_, _, _, _)
BitOp8(kind, a, b, n) ==
    IF n = 0 THEN 0
    ELSE (IF kind = "xor" THEN ((a % 2) + (b % 2)) % 2
          ELSE IF kind = "or" THEN (IF (a % 2) + (b % 2) > 0 THEN 1 ELSE 0)
          ELSE (a % 2) * (b % 2))
           + 2 * BitOp8(kind, a \div 2, b \div 2, n - 1)

XorTable == [a \in 0..15, b \in 0..15 |-> BitOp8("xor", a, b, 4)]

Xor8(a, b) == 16 * XorTable[a \div 16, b \div 16] + XorTable[a % 16, b % 16]

Or8(a, b) == BitOp8("or", a, b, 8)

And8(a, b) == BitOp8("and", a, b, 8)

\* u32::to_le_bytes / i32::to_le_bytes
to_le_bytes(v) ==
    << v % 256, (v \div 256) % 256, (v \div 65536) % 256, (v \div 16777216) % 256 >>

\* u32::from_le_bytes / i32::from_le_bytes
from_le_bytes(b) ==
    b[1] + 256 * b[2] + 65536 * b[3]
      + 16777216 * (IF b[4] >= 128 THEN b[4] - 256 ELSE b[4])

\* u16::to_le_bytes of (n as u16)
to_le_bytes16(n) == << n % 256, (n \div 256) % 256 >>

from_le_bytes16(b) == b[1] + 256 * b[2]

\* a | b on u32
U32Or(a, b) ==
    LET x == to_le_bytes(a)
        y == to_le_bytes(b)
    IN  from_le_bytes([i \in 1..4 |-> Or8(x[i], y[i])])

\* (t as u32) << 29: the bits shifted out of the word are dropped
Shl29(t) == from_le_bytes(<<0, 0, 0, (t * 32) % 256>>)

\* unsigned a < b on u32
ULt(a, b) == IF (a < 0) = (b < 0) THEN a < b ELSE a >= 0

----------------------------------------------------------------------------
(* CRC32                                                                   *)

\* Each entry is the u32 of the source written as its four bytes, the most
\* significant first: 0x04C11DB7 is <<4, 193, 29, 183>>.
CRC32_TABLE == <<
    <<0, 0, 0, 0>>, <<4, 193, 29, 183>>, <<9, 130, 59, 110>>, <<13, 67, 38, 217>>,
    <<19, 4, 118, 220>>, <<23, 197, 107, 107>>, <<26, 134, 77, 178>>, <<30, 71, 80, 5>>,
    <<38, 8, 237, 184>>, <<34, 201, 240, 15>>, <<47, 138, 214, 214>>, <<43, 75, 203, 97>>,
    <<53, 12, 155, 100>>, <<49, 205, 134, 211>>, <<60, 142, 160, 10>>, <<56, 79, 189, 189>>,
    <<76, 17, 219, 112>>, <<72, 208, 198, 199>>, <<69, 147, 224, 30>>, <<65, 82, 253, 169>>,
    <<95, 21, 173, 172>>, <<91, 212, 176, 27>>, <<86, 151, 150, 194>>, <<82, 86, 139, 117>>,
    <<106, 25, 54, 200>>, <<110, 216, 43, 127>>, <<99, 155, 13, 166>>, <<103, 90, 16, 17>>,
    <<121, 29, 64, 20>>, <<125, 220, 93, 163>>, <<112, 159, 123, 122>>, <<116, 94, 102, 205>>,
    <<152, 35, 182, 224>>, <<156, 226, 171, 87>>, <<145, 161, 141, 142>>, <<149, 96, 144, 57>>,
    <<139, 39, 192, 60>>, <<143, 230, 221, 139>>, <<130, 165, 251, 82>>, <<134, 100, 230, 229>>,
    <<190, 43, 91, 88>>, <<186, 234, 70, 239>>, <<183, 169, 96, 54>>, <<179, 104, 125, 129>>,
    <<173, 47, 45, 132>>, <<169, 238, 48, 51>>, <<164, 173, 22, 234>>, <<160, 108, 11, 93>>,
    <<212, 50, 109, 144>>, <<208, 243, 112, 39>>, <<221, 176, 86, 254>>, <<217, 113, 75, 73>>,
    <<199, 54, 27, 76>>, <<195, 247, 6, 251>>, <<206, 180, 32, 34>>, <<202, 117, 61, 149>>,
    <<242, 58, 128, 40>>, <<246, 251, 157, 159>>, <<251, 184, 187, 70>>, <<255, 121, 166, 241>>,
    <<225, 62, 246, 244>>, <<229, 255, 235, 67>>, <<232, 188, 205, 154>>, <<236, 125, 208, 45>>,
    <<52, 134, 112, 119>>, <<48, 71, 109, 192>>, <<61, 4, 75, 25>>, <<57, 197, 86, 174>>,
    <<39, 130, 6, 171>>, <<35, 67, 27, 28>>, <<46, 0, 61, 197>>, <<42, 193, 32, 114>>,
    <<18, 142, 157, 207>>, <<22, 79, 128, 120>>, <<27, 12, 166, 161>>, <<31, 205, 187, 22>>,
    <<1, 138, 235, 19>>, <<5, 75, 246, 164>>, <<8, 8, 208, 125>>, <<12, 201, 205, 202>>,
    <<120, 151, 171, 7>>, <<124, 86, 182, 176>>, <<113, 21, 144, 105>>, <<117, 212, 141, 222>>,
    <<107, 147, 221, 219>>, <<111, 82, 192, 108>>, <<98, 17, 230, 181>>, <<102, 208, 251, 2>>,
    <<94, 159, 70, 191>>, <<90, 94, 91, 8>>, <<87, 29, 125, 209>>, <<83, 220, 96, 102>>,
    <<77, 155, 48, 99>>, <<73, 90, 45, 212>>, <<68, 25, 11, 13>>, <<64, 216, 22, 186>>,
    <<172, 165, 198, 151>>, <<168, 100, 219, 32>>, <<165, 39, 253, 249>>, <<161, 230, 224, 78>>,
    <<191, 161, 176, 75>>, <<187, 96, 173, 252>>, <<182, 35, 139, 37>>, <<178, 226, 150, 146>>,
    <<138, 173, 43, 47>>, <<142, 108, 54, 152>>, <<131, 47, 16, 65>>, <<135, 238, 13, 246>>,
    <<153, 169, 93, 243>>, <<157, 104, 64, 68>>, <<144, 43, 102, 157>>, <<148, 234, 123, 42>>,
    <<224, 180, 29, 231>>, <<228, 117, 0, 80>>, <<233, 54, 38, 137>>, <<237, 247, 59, 62>>,
    <<243, 176, 107, 59>>, <<247, 113, 118, 140>>, <<250, 50, 80, 85>>, <<254, 243, 77, 226>>,
    <<198, 188, 240, 95>>, <<194, 125, 237, 232>>, <<207, 62, 203, 49>>, <<203, 255, 214, 134>>,
    <<213, 184, 134, 131>>, <<209, 121, 155, 52>>, <<220, 58, 189, 237>>, <<216, 251, 160, 90>>,
    <<105, 12, 224, 238>>, <<109, 205, 253, 89>>, <<96, 142, 219, 128>>, <<100, 79, 198, 55>>,
    <<122, 8, 150, 50>>, <<126, 201, 139, 133>>, <<115, 138, 173, 92>>, <<119, 75, 176, 235>>,
    <<79, 4, 13, 86>>, <<75, 197, 16, 225>>, <<70, 134, 54, 56>>, <<66, 71, 43, 143>>,
    <<92, 0, 123, 138>>, <<88, 193, 102, 61>>, <<85, 130, 64, 228>>, <<81, 67, 93, 83>>,
    <<37, 29, 59, 158>>, <<33, 220, 38, 41>>, <<44, 159, 0, 240>>, <<40, 94, 29, 71>>,
    <<54, 25, 77, 66>>, <<50, 216, 80, 245>>, <<63, 155, 118, 44>>, <<59, 90, 107, 155>>,
    <<3, 21, 214, 38>>, <<7, 212, 203, 145>>, <<10, 151, 237, 72>>, <<14, 86, 240, 255>>,
    <<16, 17, 160, 250>>, <<20, 208, 189, 77>>, <<25, 147, 155, 148>>, <<29, 82, 134, 35>>,
    <<241, 47, 86, 14>>, <<245, 238, 75, 185>>, <<248, 173, 109, 96>>, <<252, 108, 112, 215>>,
    <<226, 43, 32, 210>>, <<230, 234, 61, 101>>, <<235, 169, 27, 188>>, <<239, 104, 6, 11>>,
    <<215, 39, 187, 182>>, <<211, 230, 166, 1>>, <<222, 165, 128, 216>>, <<218, 100, 157, 111>>,
    <<196, 35, 205, 106>>, <<192, 226, 208, 221>>, <<205, 161, 246, 4>>, <<201, 96, 235, 179>>,
    <<189, 62, 141, 126>>, <<185, 255, 144, 201>>, <<180, 188, 182, 16>>, <<176, 125, 171, 167>>,
    <<174, 58, 251, 162>>, <<170, 251, 230, 21>>, <<167, 184, 192, 204>>, <<163, 121, 221, 123>>,
    <<155, 54, 96, 198>>, <<159, 247, 125, 113>>, <<146, 180, 91, 168>>, <<150, 117, 70, 31>>,
    <<136, 50, 22, 26>>, <<140, 243, 11, 173>>, <<129, 176, 45, 116>>, <<133, 113, 48, 195>>,
    <<93, 138, 144, 153>>, <<89, 75, 141, 46>>, <<84, 8, 171, 247>>, <<80, 201, 182, 64>>,
    <<78, 142, 230, 69>>, <<74, 79, 251, 242>>, <<71, 12, 221, 43>>, <<67, 205, 192, 156>>,
    <<123, 130, 125, 33>>, <<127, 67, 96, 150>>, <<114, 0, 70, 79>>, <<118, 193, 91, 248>>,
    <<104, 134, 11, 253>>, <<108, 71, 22, 74>>, <<97, 4, 48, 147>>, <<101, 197, 45, 36>>,
    <<17, 155, 75, 233>>, <<21, 90, 86, 94>>, <<24, 25, 112, 135>>, <<28, 216, 109, 48>>,
    <<2, 159, 61, 53>>, <<6, 94, 32, 130>>, <<11, 29, 6, 91>>, <<15, 220, 27, 236>>,
    <<55, 147, 166, 81>>, <<51, 82, 187, 230>>, <<62, 17, 157, 63>>, <<58, 208, 128, 136>>,
    <<36, 151, 208, 141>>, <<32, 86, 205, 58>>, <<45, 21, 235, 227>>, <<41, 212, 246, 84>>,
    <<197, 169, 38, 121>>, <<193, 104, 59, 206>>, <<204, 43, 29, 23>>, <<200, 234, 0, 160>>,
    <<214, 173, 80, 165>>, <<210, 108, 77, 18>>, <<223, 47, 107, 203>>, <<219, 238, 118, 124>>,
    <<227, 161, 203, 193>>, <<231, 96, 214, 118>>, <<234, 35, 240, 175>>, <<238, 226, 237, 24>>,
    <<240, 165, 189, 29>>, <<244, 100, 160, 170>>, <<249, 39, 134, 115>>, <<253, 230, 155, 196>>,
    <<137, 184, 253, 9>>, <<141, 121, 224, 190>>, <<128, 58, 198, 103>>, <<132, 251, 219, 208>>,
    <<154, 188, 139, 213>>, <<158, 125, 150, 98>>, <<147, 62, 176, 187>>, <<151, 255, 173, 12>>,
    <<175, 176, 16, 177>>, <<171, 113, 13, 6>>, <<166, 50, 43, 223>>, <<162, 243, 54, 104>>,
    <<188, 180, 102, 109>>, <<184, 117, 123, 218>>, <<181, 54, 93, 3>>, <<177, 247, 64, 180>>
>>

\* (hash << 8) ^ e, on the four bytes of hash, the most significant first
CrcStep(hash, e) ==
    <<Xor8(e[1], hash[2]), Xor8(e[2], hash[3]), Xor8(e[3], hash[4]), e[4]>>

\* `for t in bin_data { .. }` and the `!hash` returned after it;
\* st = [hash, bin_data]: the hash so far and the bytes still to come
RECURSIVE CrcLoop(_)
CrcLoop(st) ==
    IF st.bin_data = <<>>
    THEN from_le_bytes(<<255 - st.hash[4], 255 - st.hash[3],
                         255 - st.hash[2], 255 - st.hash[1]>>)
    ELSE CrcLoop([hash |-> CrcStep(st.hash,
                                   CRC32_TABLE[Xor8(st.hash[1], Head(st.bin_data)) + 1]),
                  bin_data |-> Tail(st.bin_data)])

hash_crc32(bin_data) == CrcLoop([hash |-> <<255, 255, 255, 255>>, bin_data |-> bin_data])

----------------------------------------------------------------------------
(* Strings                                                                 *)

\* char::encode_utf8
Utf8Char(c) ==
    IF c < 128 THEN <<c>>
    ELSE IF c < 2048 THEN <<192 + (c \div 64), 128 + (c % 64)>>
    ELSE IF c < 65536
    THEN <<224 + (c \div 4096), 128 + ((c \div 64) % 64), 128 + (c % 64)>>
    ELSE <<240 + (c \div 262144), 128 + ((c \div 4096) % 64), 128 + ((c \div 64) % 64),
           128 + (c % 64)>>

\* str::as_bytes
RECURSIVE as_bytes(_)
as_bytes(s) == IF s = <<>> THEN <<>> ELSE Utf8Char(Head(s)) \o as_bytes(Tail(s))

\* str::len: the length in bytes
StrLen(s) == Len(as_bytes(s))

IsCont(b) == b >= 128 /\ b < 192

SafeGet(xs, i) == IF i <= Len(xs) THEN xs[i] ELSE 0

\* Length of the well-formed UTF-8 sequence at position i of xs, 0 if there
\* is none (the checks of core::str::lossy::Utf8Chunks).
Utf8Width(xs, i) ==
    LET b == xs[i]
        b2 == SafeGet(xs, i + 1)
        b3 == SafeGet(xs, i + 2)
        b4 == SafeGet(xs, i + 3)
    IN  IF b < 128 THEN 1
        ELSE IF b >= 194 /\ b <= 223 THEN (IF IsCont(b2) THEN 2 ELSE 0)
        ELSE IF b >= 224 /\ b <= 239 THEN
            (IF /\ \/ (b = 224 /\ b2 >= 160 /\ b2 <= 191)
                   \/ (b >= 225 /\ b <= 236 /\ IsCont(b2))
                   \/ (b = 237 /\ b2 >= 128 /\ b2 <= 159)
                   \/ (b >= 238 /\ IsCont(b2))
                /\ IsCont(b3)
             THEN 3 ELSE 0)
        ELSE IF b >= 240 /\ b <= 244 THEN
            (IF /\ \/ (b = 240 /\ b2 >= 144 /\ b2 <= 191)
                   \/ (b >= 241 /\ b <= 243 /\ IsCont(b2))
                   \/ (b = 244 /\ b2 >= 128 /\ b2 <= 143)
                /\ IsCont(b3)
                /\ IsCont(b4)
             THEN 4 ELSE 0)
        ELSE 0

\* Number of bytes the lossy decoder replaces by one U+FFFD at position i,
\* where no well-formed sequence starts: the longest prefix of a sequence
\* that could still have been completed.
InvalidLen(xs, i) ==
    LET b == xs[i]
        b2 == SafeGet(xs, i + 1)
        b3 == SafeGet(xs, i + 2)
        ok2 == IF b >= 224 /\ b <= 239
               THEN \/ (b = 224 /\ b2 >= 160 /\ b2 <= 191)
                    \/ (b >= 225 /\ b <= 236 /\ IsCont(b2))
                    \/ (b = 237 /\ b2 >= 128 /\ b2 <= 159)
                    \/ (b >= 238 /\ IsCont(b2))
               ELSE IF b >= 240 /\ b <= 244
               THEN \/ (b = 240 /\ b2 >= 144 /\ b2 <= 191)
                    \/ (b >= 241 /\ b <= 243 /\ IsCont(b2))
                    \/ (b = 244 /\ b2 >= 128 /\ b2 <= 143)
               ELSE FALSE
    IN  IF ~ok2 \/ i + 1 > Len(xs) THEN 1
        ELSE IF b <= 239 THEN 2
        ELSE IF IsCont(b3) /\ i + 2 <= Len(xs) THEN 3
        ELSE 2

Utf8Value(xs, i, w) ==
    IF w = 1 THEN xs[i]
    ELSE IF w = 2 THEN (xs[i] - 192) * 64 + (xs[i + 1] - 128)
    ELSE IF w = 3 THEN (xs[i] - 224) * 4096 + (xs[i + 1] - 128) * 64 + (xs[i + 2] - 128)
    ELSE (xs[i] - 240) * 262144 + (xs[i + 1] - 128) * 4096 + (xs[i + 2] - 128) * 64
           + (xs[i + 3] - 128)

REPLACEMENT_CHARACTER == 65533

\* String::from_utf8_lossy(bytes).to_string()
RECURSIVE LossyFrom(_, _)
LossyFrom(xs, i) ==
    IF i > Len(xs) THEN <<>>
    ELSE LET w == Utf8Width(xs, i)
         IN  IF w > 0 THEN <<Utf8Value(xs, i, w)>> \o LossyFrom(xs, i + w)
             ELSE <<REPLACEMENT_CHARACTER>> \o LossyFrom(xs, i + InvalidLen(xs, i))

from_utf8_lossy(bytes) == LossyFrom(bytes, 1)

----------------------------------------------------------------------------
(* Results and errors                                                      *)

Error(kind) == [kind |-> kind, cursor |-> 0, wanted |-> 0, remaining |-> 0]

UnexpectedEof(cursor, wanted, remaining) ==
    [kind |-> "UnexpectedEof", cursor |-> cursor, wanted |-> wanted,
     remaining |-> remaining]

Panic == Error("Panic")

NoError == Error("None")

Ok(v) == [ok |-> TRUE, val |-> v, err |-> NoError]

Err(e) == [ok |-> FALSE, val |-> <<>>, err |-> e]

\* Result of a ReadBuffer method: the value and the buffer after the call.
ROk(v, r) == [ok |-> TRUE, val |-> v, r |-> r, err |-> NoError]

RErr(e, r) == [ok |-> FALSE, val |-> <<>>, r |-> r, err |-> e]

----------------------------------------------------------------------------
(* WriteBuffer (ser.rs)                                                    *)

WriteBuffer == [buffer |-> <<>>, cursor |-> 0, length |-> 0]

\* A write that sets the length to the cursor without the test
\* `if self.cursor > self.length`
write_slice_untested(w, value) ==
    LET start == w.cursor
        end == w.cursor + Len(value)
        buffer_length == Len(w.buffer)
        newlen == IF start > buffer_length \/ end > buffer_length
                  THEN end ELSE buffer_length
        resized == w.buffer \o [i \in 1..(newlen - buffer_length) |-> 0]
    IN  [buffer |-> SubSeq(resized, 1, start) \o value \o SubSeq(resized, end + 1, newlen),
         cursor |-> end,
         length |-> end]

write_slice(w, value) ==
    LET start == w.cursor
        end == w.cursor + Len(value)
        buffer_length == Len(w.buffer)
        newlen == IF start > buffer_length \/ end > buffer_length
                  THEN end ELSE buffer_length
        resized == w.buffer \o [i \in 1..(newlen - buffer_length) |-> 0]
    IN  [buffer |-> SubSeq(resized, 1, start) \o value \o SubSeq(resized, end + 1, newlen),
         cursor |-> end,
         length |-> IF end > w.length THEN end ELSE w.length]

write_u32(w, value) == write_slice(w, to_le_bytes(value))

write_i32(w, value) == write_slice(w, to_le_bytes(value))

write_u16(w, value) == write_slice(w, to_le_bytes16(value))

seek(w, cursor) == [w EXCEPT !.cursor = cursor]

into_vec(w) == SubSeq(w.buffer, 1, w.length)

----------------------------------------------------------------------------
(* ReadBuffer (de.rs)                                                      *)

ReadBuffer(buffer) == [buffer |-> buffer, cursor |-> 0]

remaining(r) == Len(r.buffer) - r.cursor

\* A length that came from a u32 of 2^31 or more is negative here and is
\* larger than every buffer.
\* &self.buffer[cursor..cursor + length] with no length check before it:
\* the slice index panics where read_bytes returns UnexpectedEof
read_bytes_unchecked(r, length) ==
    IF length < 0 \/ r.cursor + length > Len(r.buffer)
    THEN RErr(Panic, r)
    ELSE ROk(SubSeq(r.buffer, r.cursor + 1, r.cursor + length),
             [r EXCEPT !.cursor = r.cursor + length])

\* An error that reports the whole buffer as remaining
read_bytes_misreported(r, length) ==
    IF length < 0 \/ r.cursor + length > Len(r.buffer)
    THEN RErr(UnexpectedEof(r.cursor, length, Len(r.buffer)), r)
    ELSE ROk(SubSeq(r.buffer, r.cursor + 1, r.cursor + length),
             [r EXCEPT !.cursor = r.cursor + length])

read_bytes(r, length) ==
    IF length < 0 \/ r.cursor + length > Len(r.buffer)
    THEN RErr(UnexpectedEof(r.cursor, length, remaining(r)), r)
    ELSE ROk(SubSeq(r.buffer, r.cursor + 1, r.cursor + length),
             [r EXCEPT !.cursor = r.cursor + length])

\* `if cursor > self.buffer.len()`: a seek to the end of the buffer passes
read_seek_inclusive(r, cursor) ==
    IF cursor < 0 \/ cursor > Len(r.buffer)
    THEN RErr(UnexpectedEof(r.cursor, cursor, remaining(r)), r)
    ELSE ROk(<<>>, [r EXCEPT !.cursor = cursor])

read_seek(r, cursor) ==
    IF cursor < 0 \/ cursor >= Len(r.buffer)
    THEN RErr(UnexpectedEof(r.cursor, cursor, remaining(r)), r)
    ELSE ROk(<<>>, [r EXCEPT !.cursor = cursor])

read_fixed(r, S) == read_bytes(r, S)

take_slice(r, length) ==
    LET b == read_bytes(r, length)
    IN  IF b.ok THEN ROk(ReadBuffer(b.val), b.r) ELSE b

read_u32(r) ==
    LET b == read_fixed(r, 4)
    IN  IF b.ok THEN ROk(from_le_bytes(b.val), b.r) ELSE b

read_u16(r) ==
    LET b == read_fixed(r, 2)
    IN  IF b.ok THEN ROk(from_le_bytes16(b.val), b.r) ELSE b

read_i32(r) ==
    LET b == read_fixed(r, 4)
    IN  IF b.ok THEN ROk(from_le_bytes(b.val), b.r) ELSE b

----------------------------------------------------------------------------
(* Huffman engine (huffman.rs, huffman_utf16.rs)                           *)

NULL == 0

Leaf(sym, freq) == [leaf |-> TRUE, sym |-> sym, freq |-> freq, kids |-> <<>>]

Node(left, right) ==
    [leaf |-> FALSE, sym |-> -1, freq |-> left.freq + right.freq,
     kids |-> <<left, right>>]

frequency(t) == t.freq

\* FrequencyMap after push_iter over the symbols: symbol -> count
RECURSIVE CountOf(_, _)
CountOf(symbols, c) ==
    IF symbols = <<>> THEN 0
    ELSE (IF Head(symbols) = c THEN 1 ELSE 0) + CountOf(Tail(symbols), c)

FrequencyMap(symbols) ==
    [c \in {symbols[i] : i \in DOMAIN symbols} |-> CountOf(symbols, c)]

\* A pop that may return any root, whatever its frequency
HeapAny(heap) == heap

\* The roots BinaryHeap::pop may return: Ord is the reverse of the frequency
\* order, so a root of least frequency; which one among equals is left to the
\* heap's layout, which follows the HashMap's iteration order.
HeapTop(heap) == {t \in heap : \A u \in heap : frequency(t) <= frequency(u)}

RECURSIVE HeapLoop(_)
HeapLoop(heap) ==
    IF Cardinality(heap) <= 1 THEN heap
    ELSE UNION { UNION { HeapLoop((heap \ {left, right}) \cup {Node(left, right)})
                         : right \in HeapTop(heap \ {left}) }
                 : left \in HeapTop(heap) }

\* Every tree build_tree can return for the frequency map.
build_tree(freq) ==
    IF DOMAIN freq = {} THEN {Leaf(NULL, 0)}
    ELSE HeapLoop({Leaf(c, freq[c]) : c \in DOMAIN freq})

RECURSIVE CodesLoop(_, _)
CodesLoop(stack, codes) ==
    IF stack = <<>> THEN codes
    ELSE LET top == stack[Len(stack)]
             rest == SubSeq(stack, 1, Len(stack) - 1)
             current_node == top[1]
             prefix == top[2]
         IN  IF current_node.leaf
             THEN CodesLoop(rest,
                    [c \in DOMAIN codes \cup {current_node.sym} |->
                       IF c = current_node.sym THEN prefix ELSE codes[c]])
             ELSE CodesLoop(rest \o << <<current_node.kids[1], prefix \o <<0>> >>,
                                       <<current_node.kids[2], prefix \o <<1>> >> >>,
                            codes)

generate_huffman_codes(node) == CodesLoop(<< <<node, <<>> >> >>, <<>>)

\* One child of the node at pool index node_index (side 1 = left, 2 = right).
\* st = [pairs_unordered, pair_refs, queue]; queue entries carry the pool
\* index that tree_ref maps the node to.
VisitChild(st, node_index, child, side) ==
    IF child.leaf
    THEN [st EXCEPT !.pairs_unordered[node_index + 1][side] = -1 - child.sym]
    ELSE LET pair_index == Len(st.pairs_unordered)
         IN  [pairs_unordered |->
                Append([st.pairs_unordered EXCEPT ![node_index + 1][side] =
                          Len(st.pair_refs)], <<0, 0>>),
              pair_refs |-> Append(st.pair_refs, pair_index),
              queue |-> Append(st.queue, <<child, pair_index>>)]

\* `while let Some(node) = queue.pop_front()`, and after the loop the root's
\* reference pushed last and the pairs collected in the order of pair_refs
RECURSIVE PairsLoop(_, _)
PairsLoop(st, root_pair) ==
    IF st.queue = <<>>
    THEN Ok([i \in 1..(Len(st.pair_refs) + 1) |->
               st.pairs_unordered[Append(st.pair_refs, root_pair)[i] + 1]])
    ELSE IF Head(st.queue)[1].leaf THEN Err(Panic)
    ELSE PairsLoop(VisitChild(VisitChild([st EXCEPT !.queue = Tail(st.queue)],
                                         Head(st.queue)[2], Head(st.queue)[1].kids[1], 1),
                              Head(st.queue)[2], Head(st.queue)[1].kids[2], 2),
                   root_pair)

\* The pairs in the order they were made, the root's first, without the
\* reordering by pair_refs
collect_pairs_unordered(root) ==
    LET p == PairsLoop([pairs_unordered |-> << <<0, 0>> >>, pair_refs |-> <<>>,
                        queue |-> << <<root, 0>> >>], 0)
    IN  IF p.ok THEN Ok(<<p.val[Len(p.val)]>> \o SubSeq(p.val, 1, Len(p.val) - 1)) ELSE p

collect_pairs(root) ==
    PairsLoop([pairs_unordered |-> << <<0, 0>> >>, pair_refs |-> <<>>,
               queue |-> << <<root, 0>> >>], 0)

\* Huffman::new for the tree build_tree returned
HuffmanOf(huffman_tree) ==
    LET mapping == generate_huffman_codes(huffman_tree)
        pairs == collect_pairs(huffman_tree)
    IN  IF pairs.ok THEN Ok([mapping |-> mapping, pairs |-> pairs.val]) ELSE pairs

\* Every value Huffman::new(freq) can return
HuffmanNew(freq) == {HuffmanOf(t) : t \in build_tree(freq)}

RECURSIVE encode(_, _, _)
encode(huffman, symbols, output) ==
    IF symbols = <<>> THEN output
    ELSE encode(huffman, Tail(symbols),
                IF Head(symbols) \in DOMAIN huffman.mapping
                THEN output \o huffman.mapping[Head(symbols)] ELSE output)

encode_null(huffman, output) ==
    IF NULL \in DOMAIN huffman.mapping
    THEN Ok(output \o huffman.mapping[NULL]) ELSE Err(Panic)

\* char::from_symbol (value as u8 as char) and WChar::from_symbol
from_symbol(wide, value) == IF wide THEN value % 65536 ELSE value % 256

\* HuffmanString::len: bytes of the String, code units of the WString
sb_len(wide, sb) == IF wide THEN Len(sb) ELSE StrLen(sb)

\* compressed_data[pos / 8] & (1 << (pos % 8))
sample(compressed_data, pos) ==
    And8(compressed_data[(pos \div 8) + 1], Pow2(pos % 8))

\* cur_node = -1 stands for usize::MAX, the wrapped value of 0 - 1.
RECURSIVE DecodeLoop(_, _, _, _, _, _, _, _)
DecodeLoop(wide, compressed_data, pairs, max_length, unbounded, sb, cur_node, pos) ==
    IF ~(pos < Len(compressed_data) * 8 /\ (unbounded \/ sb_len(wide, sb) < max_length))
    THEN Ok(sb)
    ELSE IF cur_node < 0 \/ cur_node >= Len(pairs) THEN Err(Panic)
    ELSE LET pair == pairs[cur_node + 1]
             next == IF sample(compressed_data, pos) # 0 THEN pair[2] ELSE pair[1]
         IN  IF next < 0
             THEN LET ch == IF wide THEN (-1 - next) % 65536 ELSE -1 - next
                  IN  IF ch = 0 THEN Ok(sb)
                      ELSE DecodeLoop(wide, compressed_data, pairs, max_length, unbounded,
                                      Append(sb, from_symbol(wide, ch)),
                                      Len(pairs) - 1, pos + 1)
             ELSE IF next > Len(pairs) THEN Err(Error("MalformedDecompressionNodes"))
             ELSE DecodeLoop(wide, compressed_data, pairs, max_length, unbounded,
                             sb, next, pos + 1)

\* Huffman::decode (wide = FALSE) and HuffmanUtf16::decode (wide = TRUE).
\* checks: the build's overflow checks; unbounded: max_length is usize::MAX.
decode(checks, wide, compressed_data, pairs, position, max_length, unbounded) ==
    IF pairs = <<>> /\ checks THEN Err(Panic)
    ELSE DecodeLoop(wide, compressed_data, pairs, max_length, unbounded,
                    <<>>, Len(pairs) - 1, position)

\* A table left in the engine's order
keep_huffman_tree(checks, pairs) == Ok(pairs)

\* shared.rs: invert_huffman_tree. last_index is (len - 1) as i32.
invert_huffman_tree(checks, pairs) ==
    IF pairs = <<>> /\ checks THEN Err(Panic)
    ELSE LET last_index == Len(pairs) - 1
             n == Len(pairs)
             flip(v) == IF v > -1 THEN last_index - v ELSE v
         IN  Ok([i \in 1..n |-> <<flip(pairs[n + 1 - i][1]), flip(pairs[n + 1 - i][2])>>])

----------------------------------------------------------------------------
(* Document model (shared.rs)                                              *)

ME3_MAGIC == 1718448749   \* 0x666D726D

TLK_MAGIC == 7040084      \* 0x006B6C54

\* ValueType as u8
New == 0
RemoveProperty == 1
Add == 2
AddUnique == 3
Remove == 4

None == [some |-> FALSE, s |-> <<>>]

Some(s) == [some |-> TRUE, s |-> s]

Value(ty, text) == [ty |-> ty, text |-> text]

Property(name, values) == [name |-> name, values |-> values]

Section(name, properties) == [name |-> name, properties |-> properties]

CoalFile(path, sections) == [path |-> path, sections |-> sections]

Coalesced(version, files) == [version |-> version, files |-> files]

TlkString(id, value) == [id |-> id, value |-> value]

Tlk(version, min_version, male_values, female_values) ==
    [version |-> version, min_version |-> min_version,
     male_values |-> male_values, female_values |-> female_values]

\* A search that keeps the last entry the closure accepts
RECURSIVE find_last(_, _, _)
find_last(values, id, i) ==
    IF i > Len(values) THEN 0
    ELSE IF find_last(values, id, i + 1) # 0 THEN find_last(values, id, i + 1)
    ELSE IF values[i].id = id THEN i
    ELSE 0

\* iter_mut().find(|value| value.id == id): the entries are tried from the
\* front and the first one the closure accepts is returned; 0 stands for None
RECURSIVE find(_, _, _)
find(values, id, i) ==
    IF i > Len(values) THEN 0
    ELSE IF values[i].id = id THEN i
    ELSE find(values, id, i + 1)

\* A body that replaces nothing and reports that no entry has the id
replace_in_never(values, id, value) == [values |-> values, returned |-> FALSE]

\* The body shared by replace_male and replace_female, on the list it names
replace_in(values, id, value) ==
    IF find(values, id, 1) # 0
    THEN [values |-> [values EXCEPT ![find(values, id, 1)].value = value], returned |-> TRUE]
    ELSE [values |-> values, returned |-> FALSE]

replace_male(t, id, value) ==
    [tlk |-> [t EXCEPT !.male_values = replace_in(t.male_values, id, value).values],
     returned |-> replace_in(t.male_values, id, value).returned]

insert_male(t, id, value) ==
    IF replace_male(t, id, value).returned THEN replace_male(t, id, value).tlk
    ELSE [t EXCEPT !.male_values = Append(t.male_values, TlkString(id, value))]

replace_female(t, id, value) ==
    [tlk |-> [t EXCEPT !.female_values = replace_in(t.female_values, id, value).values],
     returned |-> replace_in(t.female_values, id, value).returned]

insert_female(t, id, value) ==
    IF replace_female(t, id, value).returned THEN replace_female(t, id, value).tlk
    ELSE [t EXCEPT !.female_values = Append(t.female_values, TlkString(id, value))]

\* `if magic != ME3_MAGIC { return Err(UnknownFileMagic) }` with the test
\* left out: every first word passes
AnyMagic(magic, expected) == FALSE

\* The test of `if magic != ME3_MAGIC` and of `if magic != TLK_MAGIC`
WrongMagic(magic, expected) == magic # expected

\* A conversion without the `_ => return Err(UnknownValueType)` arm
ValueType_from_unchecked(value) == Ok(value)

\* impl TryFrom<u8> for ValueType
ValueType_try_from(value) ==
    IF value \in {New, RemoveProperty, Add, AddUnique, Remove}
    THEN Ok(value) ELSE Err(Error("UnknownValueType"))

----------------------------------------------------------------------------
(* serialize_coalesced (ser.rs)                                            *)

SeqRange(s) == {s[i] : i \in DOMAIN s}

\* The items of a nested loop in document order: xs[1][field], xs[2][field], ...
Gather(xs, field) == Flatten([i \in DOMAIN xs |-> xs[i][field]])

\* All sections, properties and values of the document, in document order.
AllSections(coalesced) == Gather(coalesced.files, "sections")

AllProperties(coalesced) == Gather(AllSections(coalesced), "properties")

AllValues(coalesced) == Gather(AllProperties(coalesced), "values")

\* The HashSet of keys after the collection loop
CollectKeys(coalesced) ==
    {f.path : f \in SeqRange(coalesced.files)}
      \cup {x.name : x \in SeqRange(AllSections(coalesced))}
      \cup {x.name : x \in SeqRange(AllProperties(coalesced))}

\* The symbols pushed to the frequency map: each text's chars, then '\0'
CollectSymbols(values) ==
    Flatten([i \in DOMAIN values |->
               IF values[i].text.some THEN values[i].text.s \o <<NULL>> ELSE <<>>])

RECURSIVE MaxOver(_, _)
MaxOver(lengths, acc) ==
    IF lengths = <<>> THEN acc
    ELSE MaxOver(Tail(lengths), IF Head(lengths) > acc THEN Head(lengths) ELSE acc)

MaxValueLength(values) ==
    MaxOver([i \in DOMAIN values |->
               IF values[i].text.some THEN StrLen(values[i].text.s) ELSE 0], 0)

KeyHash(key) == hash_crc32(as_bytes(key))

\* keys.into_iter().collect() with the sort left out: any order of the keys
RECURSIVE KeysInAnyOrder(_)
KeysInAnyOrder(keys) ==
    IF keys = {} THEN {<<>>}
    ELSE UNION { {<<k>> \o rest : rest \in KeysInAnyOrder(keys \ {k})} : k \in keys }

\* keys.into_iter().collect() followed by the stable sort_by_key: the keys
\* in ascending order of their hash, keys of equal hash in the order the
\* HashSet happened to iterate them. All orders the sort can leave.
RECURSIVE SortedKeys(_)
SortedKeys(keys) ==
    IF keys = {} THEN {<<>>}
    ELSE UNION { {<<k>> \o rest : rest \in SortedKeys(keys \ {k})}
                 : k \in {k \in keys : \A o \in keys : ~ULt(KeyHash(o), KeyHash(k))} }

MaxKeyLength(keys) == MaxOver([i \in DOMAIN keys |-> StrLen(keys[i])], 0)

\* keys.iter().position(|key| key.eq(name)).expect(..)
Position(keys, name) ==
    (CHOOSE i \in DOMAIN keys : keys[i] = name /\ \A j \in 1..(i - 1) : keys[j] # name) - 1

\* The rows written with the cursor itself as the offset, without `- 8`
RECURSIVE WriteOffsetsUnbased(_, _)
WriteOffsetsUnbased(st, base) ==
    IF st.offsets = <<>> THEN write_u32(seek(st.w, 0), st.w.length)
    ELSE WriteOffsetsUnbased([w |-> write_u32(write_u32(st.w, Head(st.offsets)[1]),
                                               Head(st.offsets)[2]),
                               offsets |-> Tail(st.offsets)], base)

\* `for (hash, offset) in offsets`: rows of (u32, u32 - base); after the
\* loop the length is written at the start of the buffer.
\* st = [w, offsets]: the buffer and the rows still to write
RECURSIVE WriteOffsets(_, _)
WriteOffsets(st, base) ==
    IF st.offsets = <<>> THEN write_u32(seek(st.w, 0), st.w.length)
    ELSE WriteOffsets([w |-> write_u32(write_u32(st.w, Head(st.offsets)[1]),
                                       Head(st.offsets)[2] - base),
                       offsets |-> Tail(st.offsets)], base)

\* `for key in &keys`: the data table; after the loop the rows are written
\* from offset 8. st = [string_table_buffer, i, offsets]
RECURSIVE WriteKeys(_, _)
WriteKeys(st, keys) ==
    IF st.i > Len(keys)
    THEN WriteOffsets([w |-> seek(st.string_table_buffer, 8), offsets |-> st.offsets], 8)
    ELSE WriteKeys([string_table_buffer |->
                        write_slice(write_u16(st.string_table_buffer, StrLen(keys[st.i])),
                                    as_bytes(keys[st.i])),
                    i |-> st.i + 1,
                    offsets |-> Append(st.offsets, <<hash_crc32(as_bytes(keys[st.i])),
                                                     st.string_table_buffer.cursor>>)],
                   keys)

StringTableBuffer(keys) ==
    into_vec(WriteKeys([string_table_buffer |->
                            seek(write_u32(seek(WriteBuffer, 4), Len(keys)),
                                 4 + 4 + (8 * Len(keys))),
                        i |-> 1, offsets |-> <<>>],
                       keys))

\* `for (left, right) in huffman.get_pairs()`; st = [w, pairs]
RECURSIVE WritePairs(_)
WritePairs(st) ==
    IF st.pairs = <<>> THEN st.w
    ELSE WritePairs([w |-> write_i32(write_i32(st.w, Head(st.pairs)[1]), Head(st.pairs)[2]),
                     pairs |-> Tail(st.pairs)])

HuffmanBuffer(huffman) ==
    into_vec(WritePairs([w |-> write_u16(WriteBuffer, Len(huffman.pairs)),
                         pairs |-> huffman.pairs]))

\* ((item.ty as u8 as u32) << 29) | (bit_offset as u32)
PackValue(ty, bit_offset) == U32Or(Shl29(ty), bit_offset)

\* The writes of one value without `value_data_offset += 4`
WriteItemUncounted(st, ty, encoded) ==
    [st EXCEPT !.index_buffer = write_u32(@, PackValue(ty, Len(st.data_buffer))),
               !.data_buffer = IF encoded.ok THEN encoded.val ELSE @,
               !.panicked = @ \/ ~encoded.ok]

\* The writes of one value: the packed word, then the bits `encoded`, the
\* result of encoding the value's text onto the data buffer.
\* st = [index_buffer, data_buffer, panicked, file_data_offset, file_offsets,
\*       section_data_offset, section_offset, value_data_offset, property_offsets]
WriteItem(st, ty, encoded) ==
    [st EXCEPT !.index_buffer = write_u32(@, PackValue(ty, Len(st.data_buffer))),
               !.data_buffer = IF encoded.ok THEN encoded.val ELSE @,
               !.panicked = @ \/ ~encoded.ok,
               !.value_data_offset = @ + 4]

\* Body of `for item in &property.values`
WriteValue(huffman, st, item) ==
    WriteItem(st, item.ty,
              IF item.ty # RemoveProperty /\ item.text.some
              THEN encode_null(huffman, encode(huffman, item.text.s, st.data_buffer))
              ELSE Ok(st.data_buffer))

RECURSIVE WriteValues(_, _, _)
WriteValues(huffman, st, values) ==
    IF st.panicked \/ values = <<>> THEN st
    ELSE WriteValues(huffman, WriteValue(huffman, st, Head(values)), Tail(values))

\* Rows of (u16 name_index, u32 offset); st = [w, rows]
RECURSIVE WriteRows(_)
WriteRows(st) ==
    IF st.rows = <<>> THEN st.w
    ELSE WriteRows([w |-> write_u32(write_u16(st.w, Head(st.rows)[1]), Head(st.rows)[2]),
                    rows |-> Tail(st.rows)])

\* The loop with each property's offset counted from the start of the index
\* block instead of the start of its section
RECURSIVE WritePropertiesAbsolute(_, _, _, _)
WritePropertiesAbsolute(huffman, keys, st, properties) ==
    IF st.panicked THEN st
    ELSE IF properties = <<>>
    THEN [st EXCEPT
            !.index_buffer =
                WriteRows([w |-> write_u16(seek(@, st.file_data_offset
                                                     + st.section_data_offset),
                                           Len(st.property_offsets)),
                           rows |-> st.property_offsets]),
            !.section_data_offset =
                @ + 2 + 6 * Len(st.property_offsets) + st.value_data_offset]
    ELSE WritePropertiesAbsolute(huffman, keys,
            WriteValues(huffman,
                [st EXCEPT
                   !.index_buffer =
                       write_u16(seek(@, st.file_data_offset + st.section_data_offset
                                           + st.value_data_offset),
                                 Len(Head(properties).values)),
                   !.property_offsets =
                       Append(@, <<Position(keys, Head(properties).name),
                                   st.file_data_offset + st.section_data_offset
                                     + st.value_data_offset>>),
                   !.value_data_offset = @ + 2],
                Head(properties).values),
            Tail(properties))

\* `for property in &section.properties`; after the loop the section's table
\* of properties is written at the section's offset. A panic ends the loop.
RECURSIVE WriteProperties(_, _, _, _)
WriteProperties(huffman, keys, st, properties) ==
    IF st.panicked THEN st
    ELSE IF properties = <<>>
    THEN [st EXCEPT
            !.index_buffer =
                WriteRows([w |-> write_u16(seek(@, st.file_data_offset
                                                     + st.section_data_offset),
                                           Len(st.property_offsets)),
                           rows |-> st.property_offsets]),
            !.section_data_offset =
                @ + 2 + 6 * Len(st.property_offsets) + st.value_data_offset]
    ELSE WriteProperties(huffman, keys,
            WriteValues(huffman,
                [st EXCEPT
                   !.index_buffer =
                       write_u16(seek(@, st.file_data_offset + st.section_data_offset
                                           + st.value_data_offset),
                                 Len(Head(properties).values)),
                   !.property_offsets =
                       Append(@, <<Position(keys, Head(properties).name),
                                   st.value_data_offset>>),
                   !.value_data_offset = @ + 2],
                Head(properties).values),
            Tail(properties))

\* `for section in &file.sections`; after the loop the file's table of
\* sections is written at the file's offset
RECURSIVE WriteSections(_, _, _, _)
WriteSections(huffman, keys, st, sections) ==
    IF st.panicked THEN st
    ELSE IF sections = <<>>
    THEN [st EXCEPT
            !.index_buffer =
                WriteRows([w |-> write_u16(seek(@, st.file_data_offset),
                                           Len(st.section_offset)),
                           rows |-> st.section_offset]),
            !.file_data_offset = @ + 2 + 6 * Len(st.section_offset) + st.section_data_offset]
    ELSE WriteSections(huffman, keys,
            WriteProperties(huffman, keys,
                [st EXCEPT
                   !.section_offset =
                       Append(@, <<Position(keys, Head(sections).name),
                                   st.section_data_offset>>),
                   !.value_data_offset = 2 + (Len(Head(sections).properties) * 6),
                   !.property_offsets = <<>>],
                Head(sections).properties),
            Tail(sections))

\* `for file in &coalesced.files`; after the loop the table of files is
\* written at offset 0
RECURSIVE WriteFiles(_, _, _, _)
WriteFiles(huffman, keys, st, files) ==
    IF st.panicked THEN st
    ELSE IF files = <<>>
    THEN [st EXCEPT
            !.index_buffer =
                WriteRows([w |-> write_u16(seek(@, 0), Len(st.file_offsets)),
                           rows |-> st.file_offsets])]
    ELSE WriteFiles(huffman, keys,
            WriteSections(huffman, keys,
                [st EXCEPT
                   !.file_offsets =
                       Append(@, <<Position(keys, Head(files).path), st.file_data_offset>>),
                   !.section_data_offset = 2 + (Len(Head(files).sections) * 6),
                   !.section_offset = <<>>],
                Head(files).sections),
            Tail(files))

\* The index block and the data bits
IndexBuffer(coalesced, keys, huffman) ==
    WriteFiles(huffman, keys,
               [index_buffer |-> WriteBuffer, data_buffer |-> <<>>, panicked |-> FALSE,
                file_data_offset |-> 2 + (Len(coalesced.files) * 6), file_offsets |-> <<>>,
                section_data_offset |-> 0, section_offset |-> <<>>,
                value_data_offset |-> 0, property_offsets |-> <<>>],
               coalesced.files)

\* A conversion that keeps the whole bytes only
bit_to_bytes_whole(bits) ==
    [i \in 1..(Len(bits) \div 8) |->
       SumSeq([j \in 1..8 |-> bits[8 * (i - 1) + j] * Pow2(j - 1)])]

\* bit_to_bytes: Lsb0 order, the unused bits of the last byte cleared
bit_to_bytes(bits) ==
    [i \in 1..((Len(bits) + 7) \div 8) |->
       SumSeq([j \in 1..8 |->
                 IF 8 * (i - 1) + j <= Len(bits)
                 THEN bits[8 * (i - 1) + j] * Pow2(j - 1) ELSE 0])]

\* Consecutive writes at the cursor; st = [w, values], each value the bytes
\* of one write (write_u32(v) is write_slice(&v.to_le_bytes()))
RECURSIVE WriteAll(_)
WriteAll(st) ==
    IF st.values = <<>> THEN st.w
    ELSE WriteAll([w |-> write_slice(st.w, Head(st.values)), values |-> Tail(st.values)])

\* The header and the contents, from the blocks built before; index is
\* IndexBuffer's result
WriteOutput(version, max_key_length, max_value_length, string_table_buffer, huffman_buffer, index) ==
    IF index.panicked THEN Err(Panic)
    ELSE Ok(into_vec(WriteAll([w |-> WriteBuffer, values |-> <<
            to_le_bytes(ME3_MAGIC), to_le_bytes(version),
            to_le_bytes(max_key_length), to_le_bytes(max_value_length),
            to_le_bytes(Len(string_table_buffer)), to_le_bytes(Len(huffman_buffer)),
            to_le_bytes(Len(into_vec(index.index_buffer))),
            to_le_bytes(Len(bit_to_bytes(index.data_buffer))),
            string_table_buffer, huffman_buffer, into_vec(index.index_buffer),
            to_le_bytes(Len(index.data_buffer)), bit_to_bytes(index.data_buffer)>>])))

\* serialize_coalesced for one order of the keys and one Huffman::new result
SerializeCoalescedWith(coalesced, keys, huffman_new) ==
    IF ~huffman_new.ok THEN Err(Panic)
    ELSE WriteOutput(coalesced.version, MaxKeyLength(keys),
                     MaxValueLength(AllValues(coalesced)),
                     StringTableBuffer(keys), HuffmanBuffer(huffman_new.val),
                     IndexBuffer(coalesced, keys, huffman_new.val))

\* Every result serialize_coalesced(coalesced) can have
serialize_coalesced(coalesced) ==
    {SerializeCoalescedWith(coalesced, keys, h) :
        keys \in SortedKeys(CollectKeys(coalesced)),
        h \in HuffmanNew(FrequencyMap(CollectSymbols(AllValues(coalesced))))}

----------------------------------------------------------------------------
(* deserialize_coalesced (de.rs)                                           *)

\* a + b on u32, wrapping
WrappingAdd(a, b) ==
    IF a >= 0 /\ b >= 0 /\ a > 2147483647 - b
    THEN (a - 2147483647 - 1) + (b - 2147483647 - 1)
    ELSE IF a < 0 /\ b < 0 /\ a < (-2147483647 - 1) - b
    THEN (a + 2147483647 + 1) + (b + 2147483647 + 1)
    ELSE a + b

\* r.seek(base + offset) where base is a usize below the buffer length and
\* offset came from a u32: the sum is a usize and does not wrap. The error's
\* `wanted` is kept modulo 2^32.
SeekSum(r, base, offset) ==
    IF offset < 0 \/ offset >= Len(r.buffer) - base
    THEN RErr(UnexpectedEof(r.cursor, WrappingAdd(base, offset), remaining(r)), r)
    ELSE read_seek(r, base + offset)

\* `vec.push(x?)`: q is the vector so far and the buffer, v the read of x
Push(q, v) == IF v.ok THEN ROk(Append(q.val, v.val), v.r) ELSE v

\* The value a function returns: its last read's value or error, without
\* the buffer
Finish(q) == IF q.ok THEN Ok(q.val) ELSE Err(q.err)

\* Reads n u32 values after those of q
RECURSIVE ReadU32s(_, _)
ReadU32s(q, n) ==
    IF ~q.ok \/ n = 0 THEN q
    ELSE ReadU32s(Push(q, read_u32(q.r)), n - 1)

\* `for _ in 0..count`: rows of (u32, u32) or (i32, i32); a count of 2^31 or
\* more (negative here) runs until the reads fail.
RECURSIVE ReadPairRows(_, _)
ReadPairRows(q, count) ==
    IF ~q.ok \/ count = 0 THEN q
    ELSE ReadPairRows(Push(q, ReadU32s(ROk(<<>>, q.r), 2)), count - 1)

\* `for (offset, hash) in offsets`. The seek to (8 + offset) as usize: the
\* u32 sum wraps, or panics in a build with overflow checks.
RECURSIVE ReadKeys(_, _, _, _)
ReadKeys(checks, r, offsets, values) ==
    IF offsets = <<>> THEN ROk(values, r)
    ELSE LET hash == Head(offsets)[1]
             offset == Head(offsets)[2]
             sought == IF offset < 0 /\ offset >= -8 /\ checks THEN RErr(Panic, r)
                       ELSE read_seek(r, WrappingAdd(8, offset))
             length == IF sought.ok THEN read_u16(sought.r) ELSE sought
             bytes == IF length.ok THEN read_bytes(length.r, length.val) ELSE length
         IN  IF ~bytes.ok THEN bytes
             ELSE IF hash_crc32(as_bytes(from_utf8_lossy(bytes.val))) # hash
             THEN RErr(Error("StringTableHashMismatch"), bytes.r)
             ELSE ReadKeys(checks, bytes.r, Tail(offsets),
                           Append(values, from_utf8_lossy(bytes.val)))

\* The block `let string_table: Vec<String> = { .. }` after take_slice
StringTable(checks, string_table_block, string_table_size) ==
    LET local_size == read_u32(string_table_block)
        count == IF local_size.ok THEN read_u32(local_size.r) ELSE local_size
        offsets == IF count.ok THEN ReadPairRows(ROk(<<>>, count.r), count.val) ELSE count
    IN  IF ~local_size.ok THEN local_size
        ELSE IF local_size.val # string_table_size
        THEN RErr(Error("StringTableSizeMismatch"), local_size.r)
        ELSE IF ~offsets.ok THEN offsets
        ELSE ReadKeys(checks, offsets.r, offsets.val, <<>>)

\* The block `let huffman_tree: Vec<(i32, i32)> = { .. }` after take_slice
HuffmanTree(huffman_tree_block) ==
    LET count == read_u16(huffman_tree_block)
    IN  IF count.ok THEN ReadPairRows(ROk(<<>>, count.r), count.val) ELSE count

\* `for _ in 0..count`: rows of (name index, offset), the name looked up
RECURSIVE ReadRows(_, _, _)
ReadRows(q, count, string_table) ==
    IF ~q.ok \/ count = 0 THEN q
    ELSE ReadRows(
            Push(q, LET name_index == read_u16(q.r)
                        offset == IF name_index.ok THEN read_u32(name_index.r)
                                  ELSE name_index
                    IN  IF ~name_index.ok THEN name_index
                        ELSE IF name_index.val >= Len(string_table)
                        THEN RErr(Error("InvalidNameOffset"), name_index.r)
                        ELSE IF ~offset.ok THEN offset
                        ELSE ROk(<<string_table[name_index.val + 1], offset.val>>,
                                 offset.r)),
            count - 1, string_table)

\* The count and the rows of a table of files, sections or properties
ReadTable(r, string_table) ==
    LET count == read_u16(r)
    IN  IF count.ok THEN ReadRows(ROk(<<>>, count.r), count.val, string_table) ELSE count

\* Value { ty, text: Some(text) } for the result of Huffman::decode
ItemOf(ty, text, r) ==
    IF text.ok THEN ROk(Value(ty, Some(text.val)), r) ELSE RErr(text.err, r)

\* cx = [checks, version, string_table, huffman_tree, data_block, max_value_length]
\* `for _ in 0..item_count`, then the push of the Property
RECURSIVE ReadItems(_, _, _, _)
ReadItems(cx, q, item_count, property_name) ==
    IF ~q.ok THEN q
    ELSE IF item_count = 0 THEN ROk(Property(property_name, q.val), q.r)
    ELSE ReadItems(cx,
            Push(q, LET word == read_u32(q.r)
                        ty == ValueType_try_from((word.val \div 536870912) % 8)
                    IN  IF ~word.ok THEN word
                        ELSE IF ~ty.ok THEN RErr(ty.err, word.r)
                        ELSE IF ty.val = RemoveProperty
                        THEN ROk(Value(ty.val, None), word.r)
                        ELSE ItemOf(ty.val,
                                    decode(cx.checks, FALSE, cx.data_block,
                                           cx.huffman_tree, word.val % 536870912,
                                           cx.max_value_length, cx.max_value_length < 0),
                                    word.r)),
            item_count - 1, property_name)

\* `for (property_name, value_offset) in value_offsets`, then the push of
\* the Section
RECURSIVE ReadProperties(_, _, _, _, _)
ReadProperties(cx, q, value_offsets, base, section_name) ==
    IF ~q.ok THEN q
    ELSE IF value_offsets = <<>> THEN ROk(Section(section_name, q.val), q.r)
    ELSE ReadProperties(cx,
            Push(q, LET sought == SeekSum(q.r, base, Head(value_offsets)[2])
                        item_count == IF sought.ok THEN read_u16(sought.r) ELSE sought
                    IN  IF ~item_count.ok THEN item_count
                        ELSE ReadItems(cx, ROk(<<>>, item_count.r), item_count.val,
                                       Head(value_offsets)[1])),
            Tail(value_offsets), base, section_name)

\* `for (section_name, section_offset) in section_offsets`, then the push of
\* the CoalFile
RECURSIVE ReadSections(_, _, _, _, _)
ReadSections(cx, q, section_offsets, file_offset, file_name) ==
    IF ~q.ok THEN q
    ELSE IF section_offsets = <<>> THEN ROk(CoalFile(file_name, q.val), q.r)
    ELSE ReadSections(cx,
            Push(q, LET sought == SeekSum(q.r, file_offset, Head(section_offsets)[2])
                        value_offsets == IF sought.ok
                                         THEN ReadTable(sought.r, cx.string_table)
                                         ELSE sought
                    IN  IF ~value_offsets.ok THEN value_offsets
                        ELSE ReadProperties(cx, ROk(<<>>, value_offsets.r),
                                            value_offsets.val,
                                            file_offset + Head(section_offsets)[2],
                                            Head(section_offsets)[1])),
            Tail(section_offsets), file_offset, file_name)

\* `for (file_name, file_offset) in file_offsets`, then Coalesced { version, files }
RECURSIVE ReadFiles(_, _, _)
ReadFiles(cx, q, file_offsets) ==
    IF ~q.ok THEN q
    ELSE IF file_offsets = <<>> THEN ROk(Coalesced(cx.version, q.val), q.r)
    ELSE ReadFiles(cx,
            Push(q, LET sought == SeekSum(q.r, 0, Head(file_offsets)[2])
                        section_offsets == IF sought.ok
                                           THEN ReadTable(sought.r, cx.string_table)
                                           ELSE sought
                    IN  IF ~section_offsets.ok THEN section_offsets
                        ELSE ReadSections(cx, ROk(<<>>, section_offsets.r),
                                          section_offsets.val, Head(file_offsets)[2],
                                          Head(file_offsets)[1])),
            Tail(file_offsets))

\* deserialize_coalesced once the blocks are cut: the files table of the
\* index block and the loops over it. h is the header after the magic;
\* string_table and huffman_tree are the results of the two block readers.
ReadIndex(checks, h, string_table, huffman_tree, index_block, data_block) ==
    IF ~string_table.ok THEN Err(string_table.err)
    ELSE IF ~huffman_tree.ok THEN Err(huffman_tree.err)
    ELSE IF ~data_block.ok THEN Err(data_block.err)
    ELSE Finish(LET file_offsets == ReadTable(index_block.val, string_table.val)
                IN  IF ~file_offsets.ok THEN file_offsets
                    ELSE ReadFiles([checks |-> checks, version |-> h[1],
                                    string_table |-> string_table.val,
                                    huffman_tree |-> huffman_tree.val,
                                    data_block |-> data_block.val.buffer,
                                    max_value_length |-> h[3]],
                                   ROk(<<>>, file_offsets.r), file_offsets.val))

\* deserialize_coalesced after the magic; h is the read of the seven header
\* words version, max_field_name_length, max_value_length, string_table_size,
\* huffman_size, index_size, data_size
CoalescedBody(checks, h) ==
    IF ~h.ok THEN Err(h.err)
    ELSE LET string_table_block == take_slice(h.r, h.val[4])
             huffman_tree_block == IF string_table_block.ok
                                   THEN take_slice(string_table_block.r, h.val[5])
                                   ELSE string_table_block
             index_block == IF huffman_tree_block.ok
                            THEN take_slice(huffman_tree_block.r, h.val[6])
                            ELSE huffman_tree_block
             total_bits == IF index_block.ok THEN read_u32(index_block.r) ELSE index_block
             data_block == IF total_bits.ok THEN take_slice(total_bits.r, h.val[7])
                           ELSE total_bits
         IN  ReadIndex(checks, h.val,
                       IF string_table_block.ok
                       THEN StringTable(checks, string_table_block.val, h.val[4])
                       ELSE string_table_block,
                       IF huffman_tree_block.ok THEN HuffmanTree(huffman_tree_block.val)
                       ELSE huffman_tree_block,
                       index_block, data_block)

deserialize_coalesced(checks, input) ==
    LET magic == read_u32(ReadBuffer(input))
    IN  IF ~magic.ok THEN Err(magic.err)
        ELSE IF WrongMagic(magic.val, ME3_MAGIC) THEN Err(Error("UnknownFileMagic"))
        ELSE CoalescedBody(checks, ReadU32s(ROk(<<>>, magic.r), 7))

----------------------------------------------------------------------------
(* serialize_tlk (ser.rs) and deserialize_tlk (de.rs)                      *)

\* male_values chained with female_values
TlkValues(t) == t.male_values \o t.female_values

\* The symbols pushed to the frequency map: each value's units, then 0
TlkSymbols(values) == Flatten([i \in DOMAIN values |-> values[i].value \o <<NULL>>])

\* The writes of one entry: `encoded` is the result of encoding its value
\* onto the data buffer. st = [data_buffer, ref_buffer, panicked]
WriteTlkValue(st, id, encoded) ==
    [data_buffer |-> IF encoded.ok THEN encoded.val ELSE st.data_buffer,
     ref_buffer |-> write_u32(write_u32(st.ref_buffer, id), Len(st.data_buffer)),
     panicked |-> st.panicked \/ ~encoded.ok]

\* The for_each over the chained values. A panic ends it.
RECURSIVE WriteTlkValues(_, _, _)
WriteTlkValues(huffman, st, values) ==
    IF st.panicked \/ values = <<>> THEN st
    ELSE WriteTlkValues(huffman,
            WriteTlkValue(st, Head(values).id,
                          encode_null(huffman,
                                      encode(huffman, Head(values).value, st.data_buffer))),
            Tail(values))

\* The header and the contents; pairs is the inverted tree, done the state
\* after the for_each
WriteTlk(t, pairs, done) ==
    IF ~pairs.ok \/ done.panicked THEN Err(Panic)
    ELSE Ok(into_vec(WriteAll([w |-> WriteBuffer, values |-> <<
            to_le_bytes(TLK_MAGIC), to_le_bytes(t.version), to_le_bytes(t.min_version),
            to_le_bytes(Len(t.male_values)), to_le_bytes(Len(t.female_values)),
            to_le_bytes(Len(pairs.val)), to_le_bytes(Len(bit_to_bytes(done.data_buffer))),
            done.ref_buffer.buffer,
            into_vec(WritePairs([w |-> WriteBuffer, pairs |-> pairs.val])),
            bit_to_bytes(done.data_buffer)>>])))

\* serialize_tlk for one Huffman::new result
SerializeTlkWith(checks, t, huffman_new) ==
    IF ~huffman_new.ok THEN Err(Panic)
    ELSE WriteTlk(t, invert_huffman_tree(checks, huffman_new.val.pairs),
                  WriteTlkValues(huffman_new.val,
                                 [data_buffer |-> <<>>, ref_buffer |-> WriteBuffer,
                                  panicked |-> FALSE],
                                 TlkValues(t)))

\* Every result serialize_tlk(t) can have
serialize_tlk(checks, t) ==
    {SerializeTlkWith(checks, t, h) : h \in HuffmanNew(FrequencyMap(TlkSymbols(TlkValues(t))))}

\* values.push(TlkString { id: key, value: text? })
PushString(q, key, text) ==
    IF text.ok THEN Ok(Append(q.val, TlkString(key, text.val))) ELSE text

\* `for (key, offset) in refs`. `offset as usize`: an offset of 2^31 or more
\* (negative here) is past any block.
RECURSIVE DecodeRefs(_, _, _, _, _)
DecodeRefs(checks, data_block, huffman_tree, q, refs) ==
    IF ~q.ok \/ refs = <<>> THEN q
    ELSE DecodeRefs(checks, data_block, huffman_tree,
            PushString(q, Head(refs)[1],
                       decode(checks, TRUE, data_block, huffman_tree,
                              IF Head(refs)[2] < 0 THEN Len(data_block) * 8
                              ELSE Head(refs)[2],
                              0, TRUE)),
            Tail(refs))

\* Ok(Tlk { .. }) or the first error of the two decode loops
TlkOf(h, male_values, female_values) ==
    IF ~male_values.ok THEN male_values
    ELSE IF ~female_values.ok THEN female_values
    ELSE Ok(Tlk(h[1], h[2], male_values.val, female_values.val))

\* deserialize_tlk from invert_huffman_tree on
TlkStrings(checks, h, male_refs, female_refs, huffman_tree, data_block) ==
    IF ~huffman_tree.ok THEN Err(huffman_tree.err)
    ELSE IF ~data_block.ok THEN Err(data_block.err)
    ELSE TlkOf(h,
               DecodeRefs(checks, data_block.val.buffer, huffman_tree.val, Ok(<<>>),
                          male_refs),
               DecodeRefs(checks, data_block.val.buffer, huffman_tree.val, Ok(<<>>),
                          female_refs))

\* deserialize_tlk after the magic; h is the read of the six header words
\* version, min_version, male_entry_count, female_entry_count,
\* tree_node_count, data_length
TlkBody(checks, h) ==
    IF ~h.ok THEN Err(h.err)
    ELSE LET male_refs == ReadPairRows(ROk(<<>>, h.r), h.val[3])
             female_refs == IF male_refs.ok
                            THEN ReadPairRows(ROk(<<>>, male_refs.r), h.val[4])
                            ELSE male_refs
             pairs == IF female_refs.ok
                      THEN ReadPairRows(ROk(<<>>, female_refs.r), h.val[5])
                      ELSE female_refs
         IN  IF ~pairs.ok THEN Err(pairs.err)
             ELSE TlkStrings(checks, h.val, male_refs.val, female_refs.val,
                             invert_huffman_tree(checks, pairs.val),
                             take_slice(pairs.r, h.val[6]))

deserialize_tlk(checks, input) ==
    LET magic == read_u32(ReadBuffer(input))
    IN  IF ~magic.ok THEN Err(magic.err)
        ELSE IF WrongMagic(magic.val, TLK_MAGIC) THEN Err(Error("UnknownFileMagic"))
        ELSE TlkBody(checks, ReadU32s(ROk(<<>>, magic.r), 6))

----------------------------------------------------------------------------
(* Bounds and the inputs the specifications draw from                      *)

MaxNodes == 6       \* files + sections + properties + values of a document
MaxWireValues == 1  \* values of a property of a document whose bytes are edited
MaxTrailing == 1    \* bytes appended after the data block
MaxTlkEntries == 2  \* male + female entries of a Tlk
MaxTail == 3        \* bytes after the first four of a short input
MaxDelta == 3       \* accumulator positions tried after each base position
MaxSymbols == 3     \* symbols of a sequence handed to the Huffman engine
MaxPairs == 2       \* pairs of a pair table read from a file
MaxLayoutNodes == 5 \* nodes of a document whose written layout is read back
MaxBuffer == 5      \* bytes of a buffer handed to ReadBuffer::new
MaxReads == 3       \* calls made on one ReadBuffer
MaxWrites == 4      \* calls made on one WriteBuffer
MaxSeek == 4        \* furthest position a WriteBuffer is seeked to
MaxEdits == 2       \* editing calls made on one Tlk

\* "a", "b", U+00E9 (two bytes, its hash has the top bit set), "ab", ""
KeyPool == << <<97>>, <<98>>, <<233>>, <<97>>, <<97, 98>>, <<>> >>

\* The last three are outside the data model's invariants or the 8-bit
\* alphabet: a text with RemoveProperty, no text with New, U+0141.
ValuePool ==
    << Value(New, Some(<<97>>)),
       Value(RemoveProperty, None),
       Value(Add, Some(<<233, 98>>)),
       Value(AddUnique, Some(<<>>)),
       Value(Remove, Some(<<97, 98>>)),
       Value(RemoveProperty, Some(<<98>>)),
       Value(New, None),
       Value(Add, Some(<<321>>)) >>

Seeds == 0..(Len(ValuePool) - 1)

Pick(pool, n) == pool[(n % Len(pool)) + 1]

\* Shapes: a document is a sequence of files, a file a sequence of sections,
\* a section a sequence of properties, a property its number of values.
\* Level 1 = file, 2 = section, 3 = property.
RECURSIVE ForestsOfSize(_, _)
TreesOfSize(level, m) ==
    IF level = 3 THEN {m - 1} ELSE ForestsOfSize(level + 1, m - 1)

ForestsOfSize(level, n) ==
    IF n = 0 THEN {<<>>}
    ELSE UNION { {<<t>> \o rest : t \in TreesOfSize(level, m),
                                  rest \in ForestsOfSize(level, n - m)}
                 : m \in 1..n }

Shapes(max) == UNION {ForestsOfSize(1, n) : n \in 0..max}

\* The document of a shape: names and values taken from the pools in turn
DocOf(shape, seed) ==
    Coalesced(seed + 1,
      [i \in DOMAIN shape |->
         CoalFile(Pick(KeyPool, seed + i),
           [j \in DOMAIN shape[i] |->
              Section(Pick(KeyPool, seed + i + j),
                [p \in DOMAIN shape[i][j] |->
                   Property(Pick(KeyPool, seed + i + j + p + 1),
                     [v \in 1..shape[i][j][p] |->
                        Pick(ValuePool, seed + i + j + p + v - 4)])])])])

Docs == {DocOf(shape, seed) : shape \in Shapes(MaxNodes), seed \in Seeds}

\* One file with one section: a property with k values, or a property with
\* one value and a second with k, for k none and k the most
WireShapes == UNION {{ << << <<k>> >> >>, << << <<1, k>> >> >> } : k \in {0, MaxWireValues}}

WireDocs == {DocOf(shape, seed) : shape \in WireShapes, seed \in {0, 2}}

TamperBytes == {0, 255}

\* "Hi", "", U+263A, a value with a 0 code unit inside
WStringPool == << <<72, 105>>, <<>>, <<9786>>, <<72, 0, 105>> >>

TlkEntries == {TlkString(id, WStringPool[i]) : id \in {1, 42}, i \in DOMAIN WStringPool}

RECURSIVE SeqsUpTo(_, _)
SeqsUpTo(S, n) ==
    IF n = 0 THEN {<<>>}
    ELSE {<<>>} \cup {<<x>> \o rest : x \in S, rest \in SeqsUpTo(S, n - 1)}

\* Every split of a sequence of entries into the male and the female list
Tlks ==
    UNION { {Tlk(3, 3, SubSeq(s, 1, k), SubSeq(s, k + 1, Len(s))) : k \in 0..Len(s)}
            : s \in SeqsUpTo(TlkEntries, MaxTlkEntries) }

\* Ids and values handed to the editing methods: ids the lists hold and one
\* they never hold
EditIds == {1, 42, 7}

EditValues == {<<>>, <<72, 105>>}

TailBytes == {0, 1, 255}

\* A file of each kind, as the serializers write it
SampleCoalesced ==
    (CHOOSE o \in serialize_coalesced(DocOf(<< << <<1>> >> >>, 0)) : o.ok).val

SampleTlk ==
    (CHOOSE o \in serialize_tlk(FALSE, Tlk(3, 3, <<TlkString(42, <<72, 105>>)>>, <<>>)) : o.ok).val

\* First words: the two magics, each with one byte changed, and zero
MagicHeads ==
    LET magics == {to_le_bytes(ME3_MAGIC), to_le_bytes(TLK_MAGIC)}
    IN  magics \cup {<<0, 0, 0, 0>>}
          \cup {[m EXCEPT ![i] = b] : m \in magics, i \in 1..4, b \in TailBytes}

\* Inputs of less than four bytes, a first word followed by a few bytes, and
\* a first word followed by the rest of a written file
MagicInputs ==
    SeqsUpTo(TailBytes, 3)
      \cup {h \o t : h \in MagicHeads,
                     t \in SeqsUpTo(TailBytes, MaxTail)
                             \cup {SubSeq(SampleCoalesced, 5, Len(SampleCoalesced)),
                                   SubSeq(SampleTlk, 5, Len(SampleTlk))}}

\* Accumulator lengths: each base position and the MaxDelta positions after
OffsetSamples ==
    {base + d : base \in {0, Pow2(24), Pow2(29) - 2, Pow2(29), Pow2(30) - 2,
                          Pow2(30) + Pow2(29), Pow2(30) + (Pow2(30) - 16)},
                d \in 0..MaxDelta}

\* Symbols of the 8-bit alphabet (U+00E9 is two bytes in a String) and of
\* the 16-bit alphabet
SymbolPool(wide) == IF wide THEN {72, 233, 9786} ELSE {97, 98, 233}

\* Symbols the frequency map holds besides those of the sequence and the null
ExtraSymbols == {<<>>, <<120, 121, 121>>}

RECURSIVE SeqsOfLen(_, _)
SeqsOfLen(S, n) ==
    IF n = 0 THEN {<<>>} ELSE {<<x>> \o rest : x \in S, rest \in SeqsOfLen(S, n - 1)}

SymbolSeqs(wide) == UNION {SeqsOfLen(SymbolPool(wide), n) : n \in 0..MaxSymbols}

NoTree == Leaf(NULL, 0)

\* Slots of a pair table read from a file: the markers of 'a' and of the
\* null, and indexes inside and outside a table of up to MaxPairs pairs
SlotPool == {-98, -1, 0, 1, 2}

PairTables == SeqsUpTo({<<l, r>> : l \in SlotPool, r \in SlotPool}, MaxPairs)

\* Data blocks and the bit positions decoding starts from
DataBlocks == {<<>>, <<0>>, <<255>>, <<170>>}

StartPositions == {0, 3, 8}

Nothing == Err(NoError)

NoDoc == Coalesced(0, <<>>)

NoTlk == Tlk(0, 0, <<>>, <<>>)

NoEdit == [kind |-> "none", at |-> 0]

NoStep == [ty |-> 0, bit_offset |-> 0, word |-> 0, done |-> FALSE]

----------------------------------------------------------------------------
(* The layout of a written file, read field by field at its byte offsets   *)

U32At(b, i) == from_le_bytes(SubSeq(b, i + 1, i + 4))

U16At(b, i) == from_le_bytes16(SubSeq(b, i + 1, i + 2))

HeaderOf(b) ==
    [magic |-> U32At(b, 0), version |-> U32At(b, 4),
     max_field_name_length |-> U32At(b, 8), max_value_length |-> U32At(b, 12),
     string_table_size |-> U32At(b, 16), huffman_size |-> U32At(b, 20),
     index_size |-> U32At(b, 24), data_size |-> U32At(b, 28)]

\* header, the four blocks and the total-bits word before the data block
DeclaredSize(b) ==
    LET h == HeaderOf(b)
    IN  32 + h.string_table_size + h.huffman_size + h.index_size + 4 + h.data_size

\* The entries of the string table, in the order of the hash/offset rows
StoredKeys(b) ==
    [e \in 1..U32At(b, 36) |->
        LET row == 40 + 8 * (e - 1)
            at == 40 + U32At(b, row + 4)
            len == U16At(b, at)
        IN  [hash |-> U32At(b, row), at |-> at, len |-> len,
             bytes |-> SubSeq(b, at + 3, at + 2 + len)]]

\* The index block starts after the header, the string table and the tree
IndexStart(b) == 32 + U32At(b, 16) + U32At(b, 20)

\* A table of (u16 name index, u32 offset) rows behind its u16 count, at
\* byte offset `at` of the file
StoredRows(b, at) ==
    [k \in 1..U16At(b, at) |->
        [name |-> U16At(b, at + 2 + 6 * (k - 1)), offset |-> U32At(b, at + 4 + 6 * (k - 1))]]

\* The packed words of the property record at byte offset `at`
StoredWords(b, at) ==
    [k \in 1..U16At(b, at) |->
        [at |-> at + 2 + 4 * (k - 1), word |-> U32At(b, at + 2 + 4 * (k - 1))]]

\* The byte offsets of the records the offsets lead to: every file, every
\* section, every property, in the order of the rows
StoredFileStarts(b) ==
    [f \in DOMAIN StoredRows(b, IndexStart(b)) |->
        IndexStart(b) + StoredRows(b, IndexStart(b))[f].offset]

SectionStartsOf(b, file) ==
    [k \in DOMAIN StoredRows(b, file) |-> file + StoredRows(b, file)[k].offset]

\* The records the rows of each of `parents` lead to
StartsUnder(b, parents) ==
    Flatten([k \in DOMAIN parents |-> SectionStartsOf(b, parents[k])])

StoredSectionStarts(b) == StartsUnder(b, StoredFileStarts(b))

StoredPropertyStarts(b) == StartsUnder(b, StoredSectionStarts(b))

WordsUnder(b, properties) ==
    Flatten([k \in DOMAIN properties |-> StoredWords(b, properties[k])])

\* Every packed word of the file with its byte offset, in document order
StoredValueWords(b) == WordsUnder(b, StoredPropertyStarts(b))

\* Every name in the document, one per place it is used
NamesOf(d) ==
    Flatten([i \in DOMAIN d.files |->
        <<d.files[i].path>> \o
        Flatten([j \in DOMAIN d.files[i].sections |->
            <<d.files[i].sections[j].name>> \o
            [p \in DOMAIN d.files[i].sections[j].properties |->
                d.files[i].sections[j].properties[p].name]])])

----------------------------------------------------------------------------
(* A client of the library: it serializes a document, hands the bytes to   *)
(* the decoder, and serializes and decodes what the decoder returned.      *)

\* Nothing has been called yet
Start(p, d, t, w, s) ==
    /\ overflow_checks \in BOOLEAN
    /\ pc = p
    /\ doc = d
    /\ tlk = t
    /\ wire = w
    /\ step = s
    /\ out = Nothing
    /\ accepted = Nothing
    /\ res = Nothing
    /\ out2 = Nothing
    /\ res2 = Nothing
    /\ edit = NoEdit

\* let bytes = serialize_coalesced(&doc);
SerializeCoalesced ==
    /\ pc = "new"
    /\ \E o \in serialize_coalesced(doc) :
          /\ out' = o
          /\ wire' = IF o.ok THEN o.val ELSE <<>>
          /\ pc' = IF o.ok THEN "encoded" ELSE "panicked"
    /\ UNCHANGED <<overflow_checks, doc, tlk, accepted, res, out2, res2, edit, step>>

\* let decoded = deserialize_coalesced(&bytes);
DeserializeCoalesced ==
    /\ pc = "encoded"
    /\ res' = deserialize_coalesced(overflow_checks, wire)
    /\ pc' = "decoded"
    /\ UNCHANGED <<overflow_checks, doc, tlk, out, wire, accepted, out2, res2, edit, step>>

\* let bytes2 = serialize_coalesced(&decoded?);
ReserializeCoalesced ==
    /\ pc = "decoded"
    /\ res.ok
    /\ \E o \in serialize_coalesced(res.val) :
          /\ out2' = o
          /\ pc' = IF o.ok THEN "reencoded" ELSE "repanicked"
    /\ UNCHANGED <<overflow_checks, doc, tlk, out, wire, accepted, res, res2, edit, step>>

\* let decoded2 = deserialize_coalesced(&bytes2);
RedeserializeCoalesced ==
    /\ pc = "reencoded"
    /\ res2' = deserialize_coalesced(overflow_checks, out2.val)
    /\ pc' = "redecoded"
    /\ UNCHANGED <<overflow_checks, doc, tlk, out, wire, accepted, res, out2, edit, step>>

(* The bytes between the writer and the reader: a file changed on disk, a  *)
(* file written by another producer, a file cut short.                     *)

Put(b, i, bytes) == [k \in DOMAIN b |->
    IF k > i /\ k <= i + Len(bytes) THEN bytes[k - i] ELSE b[k]]

\* One byte of the file, at offset i, is overwritten
TamperByte ==
    /\ pc = "encoded"
    /\ edit.kind = "none"
    /\ \E i \in 0..(Len(wire) - 1) : \E b \in TamperBytes :
          /\ wire[i + 1] # b
          /\ wire' = Put(wire, i, <<b>>)
          /\ edit' = [kind |-> "tamper", at |-> i]
    /\ UNCHANGED <<overflow_checks, pc, doc, tlk, out, accepted, res, out2, res2, step>>

\* Bytes follow the data block
AppendBytes ==
    /\ pc = "encoded"
    /\ edit.kind = "none"
    /\ \E tail \in SeqsUpTo(TamperBytes, MaxTrailing) :
          /\ tail # <<>>
          /\ wire' = wire \o tail
          /\ edit' = [kind |-> "append", at |-> Len(wire)]
    /\ UNCHANGED <<overflow_checks, pc, doc, tlk, out, accepted, res, out2, res2, step>>

\* A producer that stores keys as raw bytes: the first byte of entry e's key
\* is 0xFF, and the entry's hash is the CRC32 of the bytes now stored
StoreRawKey ==
    /\ pc = "encoded"
    /\ edit.kind = "none"
    /\ \E e \in DOMAIN StoredKeys(wire) :
          LET k == StoredKeys(wire)[e]
              bytes == <<255>> \o Tail(k.bytes)
          IN  /\ k.len > 0
              /\ wire' = Put(Put(wire, k.at + 2, <<255>>),
                             40 + 8 * (e - 1), to_le_bytes(hash_crc32(bytes)))
              /\ edit' = [kind |-> "rawkey", at |-> k.at + 2]
    /\ UNCHANGED <<overflow_checks, pc, doc, tlk, out, accepted, res, out2, res2, step>>

\* A producer writes tag t into bits 31-29 of the k-th packed word and
\* leaves the word's other bits alone
SetTag ==
    /\ pc = "encoded"
    /\ edit.kind = "none"
    /\ \E k \in DOMAIN StoredValueWords(wire) : \E t \in 0..7 :
          /\ wire' = Put(wire, StoredValueWords(wire)[k].at + 3,
                         <<(32 * t) + (wire[StoredValueWords(wire)[k].at + 4] % 32)>>)
          /\ edit' = [kind |-> "tag", at |-> k, tag |-> t]
    /\ UNCHANGED <<overflow_checks, pc, doc, tlk, out, accepted, res, out2, res2, step>>

\* One call of an editing method of Tlk; `returned` is the bool of the
\* replace_* methods and TRUE for the insert_* methods, which return ()
Edited(op, id, value, after, returned) ==
    /\ pc = "new"
    /\ pc' = "edited"
    /\ tlk' = after
    /\ step' = [op |-> op, before |-> tlk, id |-> id, value |-> value, returned |-> returned]
    /\ UNCHANGED <<overflow_checks, doc, out, wire, accepted, res, out2, res2, edit>>

ReplaceMale ==
    \E id \in EditIds : \E value \in EditValues :
        Edited("replace_male", id, value, replace_male(tlk, id, value).tlk,
               replace_male(tlk, id, value).returned)

InsertMale ==
    \E id \in EditIds : \E value \in EditValues :
        Edited("insert_male", id, value, insert_male(tlk, id, value), TRUE)

ReplaceFemale ==
    \E id \in EditIds : \E value \in EditValues :
        Edited("replace_female", id, value, replace_female(tlk, id, value).tlk,
               replace_female(tlk, id, value).returned)

InsertFemale ==
    \E id \in EditIds : \E value \in EditValues :
        Edited("insert_female", id, value, insert_female(tlk, id, value), TRUE)

\* A file the decoder accepted is cut to its first k bytes and read again
Truncate ==
    /\ pc = "decoded"
    /\ res.ok
    /\ edit.kind # "cut"
    /\ \E k \in 0..(Len(wire) - 1) :
          /\ wire' = SubSeq(wire, 1, k)
          /\ edit' = [kind |-> "cut", at |-> k]
    /\ accepted' = res
    /\ res' = Nothing
    /\ pc' = "encoded"
    /\ UNCHANGED <<overflow_checks, doc, tlk, out, out2, res2, step>>

\* let bytes = serialize_tlk(&tlk);
SerializeTlk ==
    /\ pc = "new"
    /\ \E o \in serialize_tlk(overflow_checks, tlk) :
          /\ out' = o
          /\ wire' = IF o.ok THEN o.val ELSE <<>>
          /\ pc' = IF o.ok THEN "encoded" ELSE "panicked"
    /\ UNCHANGED <<overflow_checks, doc, tlk, accepted, res, out2, res2, edit, step>>

\* let decoded = deserialize_tlk(&bytes);
DeserializeTlk ==
    /\ pc = "encoded"
    /\ res' = deserialize_tlk(overflow_checks, wire)
    /\ pc' = "tlk_decoded"
    /\ UNCHANGED <<overflow_checks, doc, tlk, out, wire, accepted, out2, res2, edit, step>>

\* index_buffer.write_u32(((item.ty as u8 as u32) << 29) | (bit_offset as u32))
\* for a value of type step.ty met when the accumulator holds step.bit_offset bits
PackValueWord ==
    /\ pc = "packing"
    /\ step' = [step EXCEPT !.word = PackValue(step.ty, step.bit_offset),
                            !.done = TRUE]
    /\ pc' = "packed"
    /\ UNCHANGED <<overflow_checks, doc, tlk, out, wire, accepted, res, out2, res2, edit>>

(* A client of the Huffman engine: it builds a Huffman from a frequency     *)
(* map, encodes a symbol sequence and the null after it, and decodes the   *)
(* bits. step = [wide, s, freq, tree, huffman, bits, decoded].             *)

\* let huffman = Huffman::new(freq); step.tree is the tree build_tree returned
NewHuffman ==
    /\ pc = "huffman"
    /\ \E t \in build_tree(step.freq) :
          /\ step' = [step EXCEPT !.tree = t, !.huffman = HuffmanOf(t)]
          /\ pc' = IF HuffmanOf(t).ok THEN "built" ELSE "panicked"
    /\ UNCHANGED <<overflow_checks, doc, tlk, out, wire, accepted, res, out2, res2, edit>>

\* huffman.encode(s, &mut output); huffman.encode_null(&mut output);
EncodeSymbols ==
    /\ pc = "built"
    /\ step' = [step EXCEPT !.bits = encode_null(step.huffman.val,
                                                  encode(step.huffman.val, step.s, <<>>))]
    /\ pc' = IF step'.bits.ok THEN "bits" ELSE "panicked"
    /\ UNCHANGED <<overflow_checks, doc, tlk, out, wire, accepted, res, out2, res2, edit>>

\* decode(&bytes, huffman.get_pairs(), 0, s.len() + 1), s.len() in symbols
DecodeSymbols ==
    /\ pc = "bits"
    /\ step' = [step EXCEPT !.decoded =
                   decode(overflow_checks, step.wide, bit_to_bytes(step.bits.val),
                          step.huffman.val.pairs, 0, Len(step.s) + 1, FALSE)]
    /\ pc' = "symbols"
    /\ UNCHANGED <<overflow_checks, doc, tlk, out, wire, accepted, res, out2, res2, edit>>

(* A pair table as deserialize_tlk and deserialize_coalesced read it from a *)
(* file. step = [wide, pairs, data, position, once, twice, decoded].       *)

\* invert_huffman_tree(&mut pairs), on the table and on the inverted table
InvertPairs ==
    /\ pc \in {"pairs", "inverted"}
    /\ IF pc = "pairs"
       THEN /\ step' = [step EXCEPT !.once = invert_huffman_tree(overflow_checks, step.pairs)]
            /\ pc' = IF step'.once.ok THEN "inverted" ELSE "panicked"
       ELSE /\ step' = [step EXCEPT !.twice =
                                       invert_huffman_tree(overflow_checks, step.once.val)]
            /\ pc' = IF step'.twice.ok THEN "restored" ELSE "panicked"
    /\ UNCHANGED <<overflow_checks, doc, tlk, out, wire, accepted, res, out2, res2, edit>>

\* decode(&data, &pairs, position, 4)
DecodePairs ==
    /\ pc = "pairs"
    /\ step' = [step EXCEPT !.decoded =
                   decode(overflow_checks, step.wide, step.data, step.pairs,
                          step.position, 4, FALSE)]
    /\ pc' = "walked"
    /\ UNCHANGED <<overflow_checks, doc, tlk, out, wire, accepted, res, out2, res2, edit>>

Init == \E d \in Docs : Start("new", d, NoTlk, <<>>, NoStep)

Next ==
    \/ SerializeCoalesced
    \/ DeserializeCoalesced
    \/ ReserializeCoalesced
    \/ RedeserializeCoalesced

Spec == Init /\ [][Next]_vars

InitWire == \E d \in WireDocs : Start("new", d, NoTlk, <<>>, NoStep)

NextWire ==
    \/ SerializeCoalesced
    \/ TamperByte
    \/ AppendBytes
    \/ StoreRawKey
    \/ DeserializeCoalesced
    \/ Truncate

SpecWire == InitWire /\ [][NextWire]_vars

InitTlk == \E t \in Tlks : Start("new", NoDoc, t, <<>>, NoStep)

NextTlk ==
    \/ SerializeTlk
    \/ DeserializeTlk

SpecTlk == InitTlk /\ [][NextTlk]_vars

\* Any bytes handed to either decoder
InitMagic == \E b \in MagicInputs : Start("encoded", NoDoc, NoTlk, b, NoStep)

NextMagic ==
    \/ DeserializeCoalesced
    \/ DeserializeTlk

SpecMagic == InitMagic /\ [][NextMagic]_vars

InitPack ==
    \E ty \in {New, RemoveProperty, Add, AddUnique, Remove} :
        \E n \in OffsetSamples :
            Start("packing", NoDoc, NoTlk, <<>>,
                  [ty |-> ty, bit_offset |-> n, word |-> 0, done |-> FALSE])

NextPack == PackValueWord

SpecPack == InitPack /\ [][NextPack]_vars

LayoutDocs == {DocOf(shape, seed) : shape \in Shapes(MaxLayoutNodes), seed \in Seeds}

InitLayout == \E d \in LayoutDocs : Start("new", d, NoTlk, <<>>, NoStep)

NextLayout ==
    \/ SerializeCoalesced
    \/ DeserializeCoalesced

SpecLayout == InitLayout /\ [][NextLayout]_vars

TagDocs == {DocOf(shape, seed) : shape \in WireShapes, seed \in Seeds}

InitTag == \E d \in TagDocs : Start("new", d, NoTlk, <<>>, NoStep)

NextTag ==
    \/ SerializeCoalesced
    \/ SetTag
    \/ DeserializeCoalesced

SpecTag == InitTag /\ [][NextTag]_vars

InitEdit == \E t \in Tlks : Start("new", NoDoc, t, <<>>, NoStep)

NextEdit ==
    \/ ReplaceMale
    \/ InsertMale
    \/ ReplaceFemale
    \/ InsertFemale

SpecEdit == InitEdit /\ [][NextEdit]_vars

(* A client that edits one Tlk several times. The lists it starts from     *)
(* hold each id once. step = [n, op, before]: the calls made, the last     *)
(* method called and the Tlk before that call.                             *)

DistinctLists ==
    {<<>>, <<TlkString(1, <<72, 105>>)>>, <<TlkString(1, <<72, 105>>), TlkString(42, <<>>)>>}

EditedAgain(op, after) ==
    /\ pc = "editing"
    /\ step.n < MaxEdits
    /\ tlk' = after
    /\ step' = [n |-> step.n + 1, op |-> op, before |-> tlk]
    /\ UNCHANGED <<overflow_checks, pc, doc, out, wire, accepted, res, out2, res2, edit>>

ReplaceMaleAgain ==
    \E id \in EditIds : \E value \in EditValues :
        EditedAgain("replace_male", replace_male(tlk, id, value).tlk)

InsertMaleAgain ==
    \E id \in EditIds : \E value \in EditValues :
        EditedAgain("insert_male", insert_male(tlk, id, value))

ReplaceFemaleAgain ==
    \E id \in EditIds : \E value \in EditValues :
        EditedAgain("replace_female", replace_female(tlk, id, value).tlk)

InsertFemaleAgain ==
    \E id \in EditIds : \E value \in EditValues :
        EditedAgain("insert_female", insert_female(tlk, id, value))

InitEdits ==
    \E male \in DistinctLists : \E female \in DistinctLists :
        Start("editing", NoDoc, Tlk(3, 3, male, female), <<>>,
              [n |-> 0, op |-> "new", before |-> Tlk(3, 3, male, female)])

NextEdits ==
    \/ ReplaceMaleAgain
    \/ InsertMaleAgain
    \/ ReplaceFemaleAgain
    \/ InsertFemaleAgain

SpecEdits == InitEdits /\ [][NextEdits]_vars

(* A client of ReadBuffer: it makes a buffer of some bytes and calls its   *)
(* methods one after the other. step = [r, n, op, arg, before, result]:    *)
(* the buffer, the calls made, and the last call with the buffer before it *)
(* and what it returned.                                                   *)

BufferBytes == {1, 255}

Called(op, arg, result) ==
    /\ pc = "reading"
    /\ step.n < MaxReads
    /\ step' = [r |-> result.r, n |-> step.n + 1, op |-> op, arg |-> arg,
                before |-> step.r, result |-> result]
    /\ UNCHANGED <<overflow_checks, pc, doc, tlk, out, wire, accepted, res, out2, res2, edit>>

ReadU16 == Called("read_u16", 2, read_u16(step.r))

ReadU32 == Called("read_u32", 4, read_u32(step.r))

ReadI32 == Called("read_i32", 4, read_i32(step.r))

ReadBytes == \E n \in 0..(MaxBuffer + 1) : Called("read_bytes", n, read_bytes(step.r, n))

TakeSlice == \E n \in 0..(MaxBuffer + 1) : Called("take_slice", n, take_slice(step.r, n))

Seek == \E t \in 0..(MaxBuffer + 1) : Called("seek", t, read_seek(step.r, t))

InitRead ==
    \E buffer \in SeqsUpTo(BufferBytes, MaxBuffer) :
        Start("reading", NoDoc, NoTlk, <<>>,
              [r |-> ReadBuffer(buffer), n |-> 0, op |-> "new", arg |-> 0,
               before |-> ReadBuffer(buffer), result |-> ROk(<<>>, ReadBuffer(buffer))])

NextRead ==
    \/ ReadU16
    \/ ReadU32
    \/ ReadI32
    \/ ReadBytes
    \/ TakeSlice
    \/ Seek

SpecRead == InitRead /\ [][NextRead]_vars

(* A client of WriteBuffer: it seeks and writes in any order. step = [w,   *)
(* n, log]: the buffer, the calls made, and for each write so far the      *)
(* cursor it was made at and its bytes.                                    *)

WrittenSlices == {<<>>, <<7>>, <<8, 9>>}

Wrote(value) ==
    /\ pc = "writing"
    /\ step.n < MaxWrites
    /\ step' = [w |-> write_slice(step.w, value), n |-> step.n + 1,
                log |-> Append(step.log, [at |-> step.w.cursor, bytes |-> value])]
    /\ UNCHANGED <<overflow_checks, pc, doc, tlk, out, wire, accepted, res, out2, res2, edit>>

WriteSlice == \E value \in WrittenSlices : Wrote(value)

\* write_u16 and write_u32 are write_slice of the value's bytes
WriteU16 ==
    /\ pc = "writing"
    /\ step.n < MaxWrites
    /\ step' = [w |-> write_u16(step.w, 513), n |-> step.n + 1,
                log |-> Append(step.log, [at |-> step.w.cursor, bytes |-> <<1, 2>>])]
    /\ UNCHANGED <<overflow_checks, pc, doc, tlk, out, wire, accepted, res, out2, res2, edit>>

WriteU32 ==
    /\ pc = "writing"
    /\ step.n < MaxWrites
    /\ step' = [w |-> write_u32(step.w, 67305985), n |-> step.n + 1,
                log |-> Append(step.log, [at |-> step.w.cursor, bytes |-> <<1, 2, 3, 4>>])]
    /\ UNCHANGED <<overflow_checks, pc, doc, tlk, out, wire, accepted, res, out2, res2, edit>>

WriteSeek ==
    /\ pc = "writing"
    /\ step.n < MaxWrites
    /\ \E cursor \in 0..MaxSeek :
          step' = [step EXCEPT !.w = seek(step.w, cursor), !.n = step.n + 1]
    /\ UNCHANGED <<overflow_checks, pc, doc, tlk, out, wire, accepted, res, out2, res2, edit>>

InitWrite ==
    Start("writing", NoDoc, NoTlk, <<>>, [w |-> WriteBuffer, n |-> 0, log |-> <<>>])

NextWrite ==
    \/ WriteSlice
    \/ WriteU16
    \/ WriteU32
    \/ WriteSeek

SpecWrite == InitWrite /\ [][NextWrite]_vars

(* Documents whose names are taken from keys of which two have the same    *)
(* CRC32: "adpaa" and "fz71d" both hash to 0xF86E6F38.                     *)

CollidingKeys == {<<97>>, <<97, 100, 112, 97, 97>>, <<102, 122, 55, 49, 100>>}

KeyDocs ==
    {Coalesced(1, << CoalFile(path, << Section(section,
                        << Property(name, << Value(New, Some(<<97, 98>>)) >>) >>) >>) >>)
        : path \in CollidingKeys, section \in CollidingKeys, name \in CollidingKeys}

InitKeys == \E d \in KeyDocs : Start("new", d, NoTlk, <<>>, NoStep)

NextKeys ==
    \/ SerializeCoalesced
    \/ DeserializeCoalesced

SpecKeys == InitKeys /\ [][NextKeys]_vars

InitHuffman ==
    \E wide \in BOOLEAN : \E s \in SymbolSeqs(wide) : \E extra \in ExtraSymbols :
        Start("huffman", NoDoc, NoTlk, <<>>,
              [wide |-> wide, s |-> s, freq |-> FrequencyMap(s \o <<NULL>> \o extra),
               tree |-> NoTree, huffman |-> Nothing, bits |-> Nothing,
               decoded |-> Nothing])

NextHuffman ==
    \/ NewHuffman
    \/ EncodeSymbols
    \/ DecodeSymbols

SpecHuffman == InitHuffman /\ [][NextHuffman]_vars

InitPairs ==
    \E wide \in BOOLEAN : \E pairs \in PairTables :
        \E data \in DataBlocks : \E position \in StartPositions :
            Start("pairs", NoDoc, NoTlk, <<>>,
                  [wide |-> wide, pairs |-> pairs, data |-> data, position |-> position,
                   once |-> Nothing, twice |-> Nothing, decoded |-> Nothing])

NextPairs ==
    \/ InvertPairs
    \/ DecodePairs

SpecPairs == InitPairs /\ [][NextPairs]_vars

----------------------------------------------------------------------------
(* Properties of the client's run                                          *)

\* C1: for every document whose value types are all in 0-4, deserializing
\* the output of serialize_coalesced succeeds and gives a document equal to
\* the one serialized (the serializer completes, and the decoded version,
\* files, sections, properties, values, types and texts are the same).
C1_RoundTrip ==
    /\ pc # "panicked"
    /\ pc = "decoded" => res = Ok(doc)

\* C2: for every byte sequence deserialize_coalesced accepts, serializing
\* the decoded document completes, and decoding that output succeeds with a
\* document equal to the first decoded one.
C2_Rebuild ==
    /\ pc # "repanicked"
    /\ pc = "redecoded" => res2 = res

\* C4: serializing Coalesced{version: 1, files: []} completes with the header
\* magic 0x666D726D, version 1, max_field_name_length 0, max_value_length 0,
\* string_table_size 8, huffman_size 2, index_size 2, data_size 0, and the
\* output deserializes to version 1 with no files.
C4_EmptyDocument ==
    (doc = Coalesced(1, <<>>) /\ pc # "new") =>
        /\ out.ok
        /\ HeaderOf(out.val) =
             [magic |-> ME3_MAGIC, version |-> 1, max_field_name_length |-> 0,
              max_value_length |-> 0, string_table_size |-> 8, huffman_size |-> 2,
              index_size |-> 2, data_size |-> 0]
        /\ pc = "decoded" => res = Ok(Coalesced(1, <<>>))

\* C8: the string table serialize_coalesced writes holds every distinct file
\* path, section name and property name of the document exactly once and
\* nothing else, in ascending (unsigned) order of the CRC32 of the key's
\* bytes, and each stored hash is the CRC32 of the stored key bytes.
C8_StringTable ==
    (pc # "new" /\ out.ok) =>
        LET t == StoredKeys(out.val)
            names == {as_bytes(NamesOf(doc)[i]) : i \in DOMAIN NamesOf(doc)}
        IN  /\ {t[e].bytes : e \in DOMAIN t} = names
            /\ Len(t) = Cardinality(names)
            /\ \A e \in DOMAIN t : t[e].hash = hash_crc32(t[e].bytes)
            /\ \A e \in DOMAIN t : \A f \in DOMAIN t :
                  e < f => ~ULt(t[f].hash, t[e].hash)
            /\ HeaderOf(out.val).string_table_size
                 = 8 + SumSeq([e \in DOMAIN t |-> 8 + 2 + t[e].len])

\* A table of three keys or more, one of them used twice in the document and
\* one with a hash of 2^31 or more, has been written
C8_Witness ==
    /\ pc = "encoded"
    /\ Len(StoredKeys(out.val)) >= 3
    /\ Len(NamesOf(doc)) > Len(StoredKeys(out.val))
    /\ \E e \in DOMAIN StoredKeys(out.val) : StoredKeys(out.val)[e].hash < 0

\* C9: a value with ty = RemoveProperty round-trips with text None whatever
\* its text field holds: the document serializes, and the decoder returns the
\* value at the same place with ty RemoveProperty and no text.
C9_RemoveProperty ==
    (pc # "new" /\ \E i \in DOMAIN AllValues(doc) : AllValues(doc)[i].ty = RemoveProperty) =>
        /\ out.ok
        /\ pc = "decoded" =>
             /\ res.ok
             /\ Len(AllValues(res.val)) = Len(AllValues(doc))
             /\ \A i \in DOMAIN AllValues(doc) :
                   AllValues(doc)[i].ty = RemoveProperty =>
                       AllValues(res.val)[i] = Value(RemoveProperty, None)

----------------------------------------------------------------------------
(* Properties of the decoder on edited files                               *)

\* C5 as stated: for every byte sequence B deserialize_coalesced accepts and
\* every k < len(B), deserialize_coalesced(B[..k]) returns an error value and
\* never panics.
C5_TruncationFails ==
    (pc = "decoded" /\ edit.kind = "cut") => (~res.ok /\ res.err.kind # "Panic")

\* C5, amended: for every accepted B and every k < len(B), decoding B[..k]
\* never panics; it returns UnexpectedEof when k is less than the size the
\* header declares (32 + string_table_size + huffman_size + index_size + 4 +
\* data_size, or when k < 32), and otherwise, when only bytes after the data
\* block were cut, it returns the document B decodes to.
C5_Truncation ==
    (pc = "decoded" /\ edit.kind = "cut") =>
        /\ res.err.kind # "Panic"
        /\ IF Len(wire) < 32 \/ Len(wire) < DeclaredSize(wire)
           THEN ~res.ok /\ res.err.kind = "UnexpectedEof"
           ELSE res = accepted

\* An accepted file cut after its header, inside a block, has been decoded
C5_Witness ==
    /\ pc = "decoded"
    /\ edit.kind = "cut"
    /\ Len(wire) > 32
    /\ Len(wire) < DeclaredSize(wire)
    /\ res.err.kind = "UnexpectedEof"

\* The string table of the file is where the writer put it: the edit, if
\* any, changed only a stored hash or the bytes of a key
TableIntact ==
    \/ edit.kind \in {"none", "rawkey"}
    \/ /\ edit.kind = "tamper"
       /\ \E e \in DOMAIN StoredKeys(out.val) :
             LET k == StoredKeys(out.val)[e]
                 row == 40 + 8 * (e - 1)
             IN  \/ edit.at \in row..(row + 3)
                 \/ edit.at \in (k.at + 2)..(k.at + 1 + k.len)

\* C7: the decoder fails with StringTableHashMismatch exactly when, for some
\* string-table entry, the CRC32 of the entry's raw stored bytes differs from
\* its stored hash: a changed hash is rejected, and a file whose every
\* stored hash is the CRC32 of the stored bytes is not.
C7_HashCheck ==
    (pc = "decoded" /\ TableIntact) =>
        ((res.err.kind = "StringTableHashMismatch") <=>
            \E e \in DOMAIN StoredKeys(wire) :
                StoredKeys(wire)[e].hash # hash_crc32(StoredKeys(wire)[e].bytes))

----------------------------------------------------------------------------
(* Properties of the other entry points                                    *)

\* C3: for every Tlk document, deserializing the output of serialize_tlk
\* succeeds and gives a document equal to the one serialized (the serializer
\* completes; version, min_version, and the male and female entries with
\* their ids and code units are the same, in the same order).
C3_TlkRoundTrip ==
    /\ pc # "panicked"
    /\ pc = "tlk_decoded" => res = Ok(tlk)

\* C6: on an input of at least 4 bytes whose first little-endian u32 is not
\* the format's magic, deserialize_coalesced (0x666D726D) and deserialize_tlk
\* (0x006B6C54) return UnknownFileMagic whatever follows, also when the input
\* ends before the rest of the header.
C6_Magic ==
    /\ (pc = "decoded" /\ Len(wire) >= 4 /\ U32At(wire, 0) # ME3_MAGIC) =>
           (~res.ok /\ res.err.kind = "UnknownFileMagic")
    /\ (pc = "tlk_decoded" /\ Len(wire) >= 4 /\ U32At(wire, 0) # TLK_MAGIC) =>
           (~res.ok /\ res.err.kind = "UnknownFileMagic")

\* deserialize_tlk has rejected a five-byte input that starts with the
\* Coalesced magic
C6_Witness ==
    /\ pc = "tlk_decoded"
    /\ Len(wire) = 5
    /\ U32At(wire, 0) = ME3_MAGIC
    /\ res.err.kind = "UnknownFileMagic"

TopBits(word) == to_le_bytes(word)[4] \div 32

LowBits(word) ==
    LET b == to_le_bytes(word)
    IN  b[1] + 256 * b[2] + 65536 * b[3] + 16777216 * (b[4] % 32)

\* C10: every packed value word is (ty << 29) | (bit_offset & 0x1FFFFFFF): at
\* every accumulator position, positions of 2^29 or more included, bits
\* 31-29 of the word are the value's ty and bits 28-0 are bit_offset modulo
\* 2^29.
C10_PackedWord ==
    step.done =>
        /\ TopBits(step.word) = step.ty
        /\ LowBits(step.word) = step.bit_offset % Pow2(29)

\* C11: for every symbol sequence s without the null symbol and a Huffman
\* built from a frequency map holding every symbol of s and the null, decoding
\* the bits of s followed by the null code, from bit 0 with max_length
\* |s| + 1 counted in symbols, returns exactly s, in both alphabets.
C11_HuffmanRoundTrip ==
    pc = "symbols" => step.decoded = Ok(step.s)

\* C12: invert_huffman_tree is an involution: for every pair table p,
\* applying it twice gives back p.
C12_InvertInvolution ==
    /\ pc # "panicked"
    /\ pc = "restored" => step.twice = Ok(step.pairs)

\* The slot the first bit selects in the root pair, when the loop is entered
FirstSlot ==
    step.pairs[Len(step.pairs)][IF sample(step.data, step.position) # 0 THEN 2 ELSE 1]

\* C13: decode never indexes the pair table out of bounds, and a selected
\* slot holding a non-negative index that is not a position of the table
\* (index >= pairs.len()) makes it return MalformedDecompressionNodes.
C13_MalformedNodes ==
    pc = "walked" =>
        /\ step.decoded.err # Panic
        /\ (step.pairs # <<>> /\ step.position < 8 * Len(step.data)
              /\ FirstSlot >= Len(step.pairs))
            => step.decoded = Err(Error("MalformedDecompressionNodes"))

\* The text is made of 8-bit chars other than NUL
EightBit(text) == \A i \in DOMAIN text : text[i] > 0 /\ text[i] < 256

\* C14: the decoder takes ty from bits 31-29 of a packed word and bit_offset
\* from bits 28-0: a tag of 0..4 gives the value that type (and, for a type
\* other than RemoveProperty, the text encoded at the unchanged offset), and
\* a tag of 5, 6 or 7 makes deserialize_coalesced fail with UnknownValueType.
C14_ValueTag ==
    pc = "decoded" /\ edit.kind = "tag" =>
        IF edit.tag > 4 THEN res = Err(Error("UnknownValueType"))
        ELSE /\ res.ok
             /\ Len(AllValues(res.val)) = Len(AllValues(doc))
             /\ AllValues(res.val)[edit.at].ty = edit.tag
             /\ LET old == AllValues(doc)[edit.at]
                IN  (old.ty # RemoveProperty /\ old.text.some /\ EightBit(old.text.s)
                       /\ edit.tag # RemoveProperty)
                    => AllValues(res.val)[edit.at].text = old.text

\* A word of a written file was given the tag 5, 6 or 7 and the file decoded
C14_Witness ==
    /\ pc = "decoded" /\ edit.kind = "tag" /\ edit.tag > 4
    /\ res = Err(Error("UnknownValueType"))

\* The list the call is about, of the Tlk `t`, and the list it is not about
EditedList(t) ==
    IF step.op \in {"replace_male", "insert_male"} THEN t.male_values ELSE t.female_values

OtherList(t) ==
    IF step.op \in {"replace_male", "insert_male"} THEN t.female_values ELSE t.male_values

HasId(values) == \E i \in DOMAIN values : values[i].id = step.id

\* The first entry with the id has the new value and every other entry is
\* as it was, at the place it was
FirstReplaced(before, after) ==
    /\ Len(after) = Len(before)
    /\ \E i \in DOMAIN before :
          /\ before[i].id = step.id
          /\ \A k \in 1..(i - 1) : before[k].id # step.id
          /\ after[i] = TlkString(step.id, step.value)
          /\ \A j \in DOMAIN before : j # i => after[j] = before[j]

\* C15: insert_male/insert_female replace the value of the first entry with
\* the id, keeping the list's length and order, or append {id, v} when no
\* entry has the id; replace_male/replace_female return true exactly when an
\* entry with the id existed and change nothing when they return false.
C15_TlkEdits ==
    pc = "edited" =>
        /\ OtherList(tlk) = OtherList(step.before)
        /\ tlk.version = step.before.version /\ tlk.min_version = step.before.min_version
        /\ HasId(EditedList(step.before)) =>
               FirstReplaced(EditedList(step.before), EditedList(tlk))
        /\ (~HasId(EditedList(step.before)) /\ step.op \in {"insert_male", "insert_female"}) =>
               EditedList(tlk) = Append(EditedList(step.before), TlkString(step.id, step.value))
        /\ step.op \in {"replace_male", "replace_female"} =>
               /\ step.returned = HasId(EditedList(step.before))
               /\ ~step.returned => tlk = step.before

\* insert_female was called with an id that two entries of female_values have
C15_Witness ==
    /\ pc = "edited" /\ step.op = "insert_female"
    /\ Len(step.before.female_values) = 2
    /\ \A i \in 1..2 : step.before.female_values[i].id = step.id
    /\ step.before.female_values[1].value # step.value
    /\ tlk.female_values[1].value = step.value

\* The document holds at least one encoded string
HasEncodedString == \E i \in DOMAIN AllValues(doc) : AllValues(doc)[i].text.some

\* The leaves of a tree
RECURSIVE LeavesOf(_)
LeavesOf(tree) ==
    IF tree.leaf THEN {tree.sym} ELSE LeavesOf(tree.kids[1]) \cup LeavesOf(tree.kids[2])

\* C16: for every document that holds at least one encoded string, empty
\* strings included, the tree serialize_coalesced builds has at least two
\* leaves, one of them the null symbol, and pair-table construction and
\* encode_null complete without panicking.
C16_TwoLeaves ==
    (pc # "new" /\ HasEncodedString) =>
        \A tree \in build_tree(FrequencyMap(CollectSymbols(AllValues(doc)))) :
            /\ ~tree.leaf
            /\ NULL \in LeavesOf(tree)
            /\ HuffmanOf(tree).ok
            /\ encode_null(HuffmanOf(tree).val, <<>>).ok
            /\ out # Err(Panic)

\* The internal nodes of a tree in breadth-first order, left child before
\* right child, the root first
RECURSIVE BfsInternal(_)
BfsInternal(queue) ==
    IF queue = <<>> THEN <<>>
    ELSE IF Head(queue).leaf THEN BfsInternal(Tail(queue))
    ELSE <<Head(queue)>> \o BfsInternal(Tail(queue) \o Head(queue).kids)

\* The index of the pair of the j-th internal node met: the root's is last,
\* the others are numbered from 0 as they are met
PairIndex(inner, j) == IF j = 1 THEN Len(inner) - 1 ELSE j - 2

\* What a slot holds for a child
SlotOf(inner, child) ==
    IF child.leaf THEN -1 - child.sym
    ELSE PairIndex(inner, CHOOSE j \in DOMAIN inner : inner[j] = child)

\* The slot reached from pair `cur` along the bits of a code; the length of
\* the table, which no slot of a leaf is, when the walk leaves the table or
\* meets a leaf slot before the last bit
RECURSIVE WalkCode(_, _, _)
WalkCode(pairs, cur, code) ==
    IF cur < 0 \/ cur >= Len(pairs) \/ code = <<>> THEN Len(pairs)
    ELSE IF Len(code) = 1 THEN pairs[cur + 1][Head(code) + 1]
    ELSE WalkCode(pairs, pairs[cur + 1][Head(code) + 1], Tail(code))

PairsAsClaimed(inner, mapping, pairs) ==
    /\ Len(pairs) = Len(inner)
    /\ \A j \in DOMAIN inner :
          /\ pairs[PairIndex(inner, j) + 1] =
                <<SlotOf(inner, inner[j].kids[1]), SlotOf(inner, inner[j].kids[2])>>
          /\ \A side \in 1..2 :
                ~inner[j].kids[side].leaf =>
                    pairs[PairIndex(inner, j) + 1][side] \in 0..(Len(pairs) - 2)
    /\ \A symbol \in DOMAIN mapping :
          WalkCode(pairs, Len(pairs) - 1, mapping[symbol]) = -1 - symbol

\* C17: for a tree with at least two leaves collect_pairs gives one pair per
\* internal node, the root's at index len-1; a slot holds -1 - symbol for a
\* leaf child and, for an internal child, the index in 0..len-2 of that
\* child's pair, numbered in breadth-first discovery order; walking from
\* pairs[len-1] along a symbol's code ends on the slot -1 - symbol.
C17_PairTable ==
    (pc # "huffman" /\ ~step.tree.leaf) =>
        /\ step.huffman.ok
        /\ PairsAsClaimed(BfsInternal(<<step.tree>>), step.huffman.val.mapping,
                          step.huffman.val.pairs)

\* A pair table was made of a tree whose root has two internal children, one
\* of them with an internal child of its own
C17_Witness ==
    /\ pc = "built" /\ ~step.tree.leaf
    /\ ~step.tree.kids[1].leaf /\ ~step.tree.kids[2].leaf
    /\ Len(step.huffman.val.pairs) >= 4

\* The byte offsets at which the records of the index end: the table of
\* files, and the record at each stored file, section and property offset
\* (a table is a u16 count and 6-byte rows, a property a u16 count and
\* 4-byte words)
EndsOf(b, starts, width) ==
    {starts[k] + 2 + width * U16At(b, starts[k]) : k \in DOMAIN starts}

RecordEnds(b) ==
    EndsOf(b, <<IndexStart(b)>>, 6) \cup EndsOf(b, StoredFileStarts(b), 6)
    \cup EndsOf(b, StoredSectionStarts(b), 6) \cup EndsOf(b, StoredPropertyStarts(b), 4)

\* The u32 bit count stored between the index block and the data block
StoredTotalBits(b) == U32At(b, IndexStart(b) + HeaderOf(b).index_size)

\* C18: in every output of serialize_coalesced the size fields of the header
\* are the byte lengths of the blocks that follow: string_table_size is the
\* string table with its 8-byte preamble and equals the embedded local_size,
\* huffman_size is 2 + 8 * pair_count, index_size the length of the index
\* block (it ends where the last of its records ends), data_size
\* ceil(total_bit_count / 8), and the output is 32 + the four sizes + 4
\* bytes long.
C18_HeaderSizes ==
    (pc # "new" /\ out.ok) =>
        LET b == out.val
            h == HeaderOf(b)
            t == StoredKeys(b)
        IN  /\ h.string_table_size = U32At(b, 32)
            /\ h.string_table_size = 8 + SumSeq([e \in DOMAIN t |-> 8 + 2 + t[e].len])
            /\ h.huffman_size = 2 + 8 * U16At(b, 32 + h.string_table_size)
            /\ U16At(b, 32 + h.string_table_size)
                 = Cardinality(DOMAIN FrequencyMap(CollectSymbols(AllValues(doc)))) - 1
            /\ \A end \in RecordEnds(b) : end <= IndexStart(b) + h.index_size
            /\ IndexStart(b) + h.index_size \in RecordEnds(b)
            /\ h.data_size = (StoredTotalBits(b) + 7) \div 8
            /\ Len(b) = 32 + h.string_table_size + h.huffman_size + h.index_size
                          + 4 + h.data_size

\* A file was written whose bit count is not a multiple of 8, with two pairs
\* or more and two sections or more
C18_Witness ==
    /\ pc = "encoded"
    /\ StoredTotalBits(out.val) % 8 # 0
    /\ HeaderOf(out.val).data_size >= 1
    /\ HeaderOf(out.val).huffman_size >= 18
    /\ Len(AllSections(doc)) >= 2

\* The row's name index leads to the key `name` in the string table
NameIs(keys, index, name) ==
    index + 1 \in DOMAIN keys /\ keys[index + 1].bytes = as_bytes(name)

\* A u16 count and its rows of `width` bytes lie inside the index block
RecordWithin(b, at, width) ==
    /\ at >= IndexStart(b)
    /\ at + 2 <= IndexStart(b) + HeaderOf(b).index_size
    /\ at + 2 + width * U16At(b, at) <= IndexStart(b) + HeaderOf(b).index_size

\* The record at byte offset `at` is the one of this property: its count,
\* then one word per value with the value's type in bits 31-29
PropertyAt(b, at, property) ==
    /\ RecordWithin(b, at, 4)
    /\ U16At(b, at) = Len(property.values)
    /\ \A v \in DOMAIN property.values :
          (StoredWords(b, at)[v].word \div 536870912) % 8 = property.values[v].ty

\* The record at `at` is the one of this section: its count, a row per
\* property with the property's name, and behind each row's offset, taken
\* from the section's start, the property's record
SectionAt(b, keys, at, section) ==
    /\ RecordWithin(b, at, 6)
    /\ U16At(b, at) = Len(section.properties)
    /\ \A p \in DOMAIN section.properties :
          /\ NameIs(keys, StoredRows(b, at)[p].name, section.properties[p].name)
          /\ PropertyAt(b, at + StoredRows(b, at)[p].offset, section.properties[p])

FileAt(b, keys, at, file) ==
    /\ RecordWithin(b, at, 6)
    /\ U16At(b, at) = Len(file.sections)
    /\ \A k \in DOMAIN file.sections :
          /\ NameIs(keys, StoredRows(b, at)[k].name, file.sections[k].name)
          /\ SectionAt(b, keys, at + StoredRows(b, at)[k].offset, file.sections[k])

IndexAt(b, keys, at, d) ==
    /\ RecordWithin(b, at, 6)
    /\ U16At(b, at) = Len(d.files)
    /\ \A f \in DOMAIN d.files :
          /\ NameIs(keys, StoredRows(b, at)[f].name, d.files[f].path)
          /\ FileAt(b, keys, at + StoredRows(b, at)[f].offset, d.files[f])

\* C19: the offset stored in a parent's row is relative to the parent's own
\* start (a file's from the start of the index, a section's from its file's
\* start, a property's from its section's start) and leads to the first
\* byte of the child's count field: the seeks to file_offset, file_offset +
\* section_offset and file_offset + section_offset + property_offset land on
\* the record the encoder wrote for that child.
C19_RelativeOffsets ==
    (pc # "new" /\ out.ok) =>
        IndexAt(out.val, StoredKeys(out.val), IndexStart(out.val), doc)

\* A document was written with a file of two sections, the second with a
\* property that has a value
C19_Witness ==
    /\ pc = "encoded"
    /\ \E f \in DOMAIN doc.files :
          /\ Len(doc.files[f].sections) >= 2
          /\ \E p \in DOMAIN doc.files[f].sections[2].properties :
                doc.files[f].sections[2].properties[p].values # <<>>

\* The pair table stored in the file, behind its u16 count
StoredPairs(b) ==
    [k \in 1..U16At(b, 32 + U32At(b, 16)) |->
        <<U32At(b, 32 + U32At(b, 16) + 2 + 8 * (k - 1)),
          U32At(b, 32 + U32At(b, 16) + 6 + 8 * (k - 1))>>]

\* The data block of the file, behind the u32 bit count
StoredData(b) ==
    SubSeq(b, IndexStart(b) + HeaderOf(b).index_size + 5, Len(b))

\* The position after the codes of `symbols`, read from bit `pos` of `data`
\* along the pair table from its last pair; -1 when the bits spell another
\* symbol, leave the table or run past `total` bits
RECURSIVE WalkSymbols(_, _, _, _, _, _)
WalkSymbols(pairs, data, total, pos, cur, symbols) ==
    IF symbols = <<>> THEN pos
    ELSE IF pos >= total \/ cur < 0 \/ cur >= Len(pairs) THEN -1
    ELSE LET next == pairs[cur + 1][IF sample(data, pos) # 0 THEN 2 ELSE 1]
         IN  IF next >= 0 THEN WalkSymbols(pairs, data, total, pos + 1, next, symbols)
             ELSE IF next = -1 - Head(symbols)
             THEN WalkSymbols(pairs, data, total, pos + 1, Len(pairs) - 1, Tail(symbols))
             ELSE -1

\* The bits a value appends: none, or its symbols and the null
AppendedSymbols(value) ==
    IF value.ty # RemoveProperty /\ value.text.some THEN value.text.s \o <<NULL>> ELSE <<>>

\* In a written file every word's offset is 0 for the first value and, for
\* the others, the position where the bits of the value before it end; the
\* last value's bits end at the stored bit count
OffsetsFollow(b, words, values) ==
    /\ Len(words) = Len(values)
    /\ \A k \in DOMAIN values :
          /\ k = 1 => words[k].word % 536870912 = 0
          /\ WalkSymbols(StoredPairs(b), StoredData(b), StoredTotalBits(b),
                         words[k].word % 536870912, Len(StoredPairs(b)) - 1,
                         AppendedSymbols(values[k]))
               = IF k < Len(values) THEN words[k + 1].word % 536870912
                 ELSE StoredTotalBits(b)

\* The offsets of the written documents whose data is shorter than 2^29 bits
BitOffsetsInSmallDocuments ==
    (pc # "new" /\ out.ok) =>
        OffsetsFollow(out.val, StoredValueWords(out.val), AllValues(doc))

\* C20: for every value with a type other than RemoveProperty and a text, the
\* bit_offset stored in its packed word (bits 28-0) is the number of bits the
\* earlier values appended to the accumulator, which is the position of the
\* value's first code bit.
C20_BitOffset ==
    (step.done /\ step.ty # RemoveProperty) => LowBits(step.word) = step.bit_offset

\* The pair table stored in a TLK file, behind the header and the refs
StoredTlkPairs(b) ==
    [k \in 1..U32At(b, 20) |->
        <<U32At(b, 28 + 8 * (U32At(b, 12) + U32At(b, 16)) + 8 * (k - 1)),
          U32At(b, 28 + 8 * (U32At(b, 12) + U32At(b, 16)) + 8 * (k - 1) + 4)>>]

\* `stored` is the engine's table in the opposite order: the engine's pair i
\* is the stored pair n - 1 - i, a slot of a leaf is unchanged and the index
\* e of a child's pair is stored as n - 1 - e, which lies in 1..n-1; so the
\* root is the stored pair 0 and every code walks from it to its symbol
InvertedForm(huffman, stored) ==
    /\ Len(stored) = Len(huffman.pairs)
    /\ \A i \in DOMAIN huffman.pairs : \A side \in 1..2 :
          LET e == huffman.pairs[i][side]
              v == stored[Len(stored) + 1 - i][side]
          IN  IF e < 0 THEN v = e
              ELSE v = Len(stored) - 1 - e /\ v \in 1..(Len(stored) - 1)
    /\ \A symbol \in DOMAIN huffman.mapping :
          /\ WalkCode(stored, 0, huffman.mapping[symbol]) = -1 - symbol
          /\ WalkCode(huffman.pairs, Len(huffman.pairs) - 1, huffman.mapping[symbol])
               = -1 - symbol

\* C21: in every output of serialize_tlk the pair table is stored inverted:
\* the root pair at index 0, every non-negative slot the index in 1..n-1 of
\* the child's pair, negative slots unchanged; and the re-inversion
\* deserialize_tlk applies to the pairs it reads gives the engine's table,
\* root at index n-1.
C21_InvertedTable ==
    (pc # "new" /\ out.ok) =>
        \E h \in HuffmanNew(FrequencyMap(TlkSymbols(TlkValues(tlk)))) :
            /\ h.ok
            /\ SerializeTlkWith(overflow_checks, tlk, h) = out
            /\ InvertedForm(h.val, StoredTlkPairs(out.val))
            /\ invert_huffman_tree(overflow_checks, StoredTlkPairs(out.val))
                 = Ok(h.val.pairs)

\* A TLK file with a table of three pairs or more was written and decoded
C21_Witness ==
    /\ pc = "tlk_decoded" /\ out.ok /\ res.ok
    /\ Len(StoredTlkPairs(out.val)) >= 3
    /\ \E side \in 1..2 : StoredTlkPairs(out.val)[1][side] >= 1

----------------------------------------------------------------------------
(* Properties of ReadBuffer                                                *)

\* The bytes the last call asked for, when the buffer before it had them
Asked == SubSeq(step.before.buffer, step.before.cursor + 1, step.before.cursor + step.arg)

C23_Seek ==
    step.op = "seek" =>
        /\ step.r.buffer = step.before.buffer
        /\ IF step.arg >= Len(step.before.buffer)
           THEN /\ ~step.result.ok
                /\ step.result.err.kind = "UnexpectedEof"
                /\ step.r.cursor = step.before.cursor
           ELSE step.result.ok /\ step.r.cursor = step.arg

\* A seek to exactly the end of a buffer that is not empty was rejected with
\* the cursor inside the buffer
C23_Witness ==
    /\ step.op = "seek"
    /\ step.arg = Len(step.before.buffer)
    /\ step.before.cursor > 0
    /\ ~step.result.ok
    /\ step.r.cursor = step.before.cursor

----------------------------------------------------------------------------
(* Properties of WriteBuffer                                               *)

\* The largest end position a write of the log reached
HighWater(log) ==
    IF log = <<>> THEN 0
    ELSE CHOOSE e \in {log[k].at + Len(log[k].bytes) : k \in DOMAIN log} :
            \A k \in DOMAIN log : log[k].at + Len(log[k].bytes) <= e

\* The writes of the log that covered byte i (counted from 1)
Covering(log, i) ==
    {k \in DOMAIN log : log[k].at < i /\ i <= log[k].at + Len(log[k].bytes)}

\* The value of byte i: what the last write that covered it put there, or 0
ByteAfter(log, i) ==
    IF Covering(log, i) = {} THEN 0
    ELSE LET k == CHOOSE k \in Covering(log, i) : \A j \in Covering(log, i) : j <= k
         IN  log[k].bytes[i - log[k].at]

\* C24: after any sequence of seeks and writes, into_vec returns exactly
\* `length` bytes, length being the largest end position a write reached;
\* each byte holds the value of the last write that covered it, every byte
\* no write covered is 0; a seek alone, also past the high-water mark,
\* changes neither length nor contents.
C24_WriteBuffer ==
    pc = "writing" =>
        /\ step.w.length = HighWater(step.log)
        /\ Len(into_vec(step.w)) = HighWater(step.log)
        /\ \A i \in 1..HighWater(step.log) : into_vec(step.w)[i] = ByteAfter(step.log, i)

\* A write past the end left a gap, and a later write landed inside an
\* earlier one, before the high-water mark
C24_Witness ==
    /\ pc = "writing"
    /\ Len(step.log) >= 2
    /\ \E i \in 1..HighWater(step.log) : Covering(step.log, i) = {}
    /\ \E i \in 1..HighWater(step.log) : Cardinality(Covering(step.log, i)) >= 2
    /\ step.w.cursor < step.w.length

----------------------------------------------------------------------------
(* Properties of decode's length cap                                       *)

\* a is b or a shorter start of b
IsPrefix(a, b) == Len(a) <= Len(b) /\ a = SubSeq(b, 1, Len(a))

\* C25: decode's max_length counts output symbols: it never returns more
\* than max_length symbols, and it does not stop before the null terminator
\* while fewer than max_length symbols are produced and bits remain, in the
\* 8-bit engine with symbols of 0x80 or above too. The data holds the codes
\* of s and of the null, so a result that is a shorter start of s stopped
\* with bits left and the null not met.
C25_SymbolCap ==
    pc = "symbols" /\ step.decoded.ok =>
        /\ Len(step.decoded.val) <= Len(step.s) + 1
        /\ IsPrefix(step.decoded.val, step.s)
        /\ Len(encode(step.huffman.val, step.decoded.val, <<>>)) < Len(step.bits.val)
        /\ Len(step.decoded.val) < Len(step.s) => Len(step.decoded.val) >= Len(step.s) + 1

----------------------------------------------------------------------------
(* Properties of the string table's order                                  *)

\* The keys of a written file, in the order of its string table
KeySequence(b) == [e \in DOMAIN StoredKeys(b) |-> StoredKeys(b)[e].bytes]

\* C26: the order of the string table is reproducible: every run of
\* serialize_coalesced on a document writes the same sequence of keys,
\* whatever order the hash set iterated them in, also when two distinct
\* keys have the same CRC32.
C26_KeyOrder ==
    (pc \in {"encoded", "decoded"} /\ out.ok) =>
        \A o \in serialize_coalesced(doc) :
            o.ok => KeySequence(o.val) = KeySequence(out.val)

----------------------------------------------------------------------------
(* Properties of build_tree                                                *)

\* The inner nodes of a tree
RECURSIVE NodesOf(_)
NodesOf(tree) ==
    IF tree.leaf THEN {}
    ELSE {tree} \cup NodesOf(tree.kids[1]) \cup NodesOf(tree.kids[2])

\* r is a root of least frequency among the roots
Lowest(r, roots) == r \in roots /\ \A u \in roots : r.freq <= u.freq

\* The tree can be reached from the roots by joining, at every step, a root
\* of least frequency with a root of least frequency among the others
RECURSIVE JoinsLowest(_, _)
JoinsLowest(roots, tree) ==
    IF Cardinality(roots) <= 1 THEN roots = {tree}
    ELSE \E n \in NodesOf(tree) :
            /\ Lowest(n.kids[1], roots)
            /\ Lowest(n.kids[2], roots \ {n.kids[1]})
            /\ n.freq = n.kids[1].freq + n.kids[2].freq
            /\ JoinsLowest((roots \ {n.kids[1], n.kids[2]}) \cup {n}, tree)

\* The codes cover the map, none is a start of another (so they are pairwise
\* distinct), and a higher frequency never has the longer code
CodesAsClaimed(freq, code) ==
    /\ DOMAIN code = DOMAIN freq
    /\ \A a, b \in DOMAIN freq :
          /\ a # b => ~IsPrefix(code[a], code[b])
          /\ freq[a] > freq[b] => Len(code[a]) <= Len(code[b])

\* C27: build_tree removes at every step the two roots of lowest frequency
\* and pushes a node carrying their sum, until one root is left; so every
\* symbol of the map gets a code, the codes are pairwise distinct and none
\* is a start of another, and a symbol of strictly higher frequency never
\* has a longer code than a symbol of strictly lower frequency.
C27_LowestFirst ==
    (pc \in {"built", "panicked"}) =>
        /\ JoinsLowest({Leaf(c, step.freq[c]) : c \in DOMAIN step.freq}, step.tree)
        /\ CodesAsClaimed(step.freq, generate_huffman_codes(step.tree))

\* Two symbols of different frequency got codes of different length, in a
\* tree of four leaves or more
C27_Witness ==
    /\ pc = "built"
    /\ Cardinality(DOMAIN step.freq) >= 4
    /\ \E a, b \in DOMAIN step.freq :
          /\ step.freq[a] > step.freq[b]
          /\ Len(step.huffman.val.mapping[a]) < Len(step.huffman.val.mapping[b])

----------------------------------------------------------------------------
(* Properties of the index block's records                                 *)

\* The bytes [from, to) of the records at `starts`: a u16 count and as many
\* rows of `width` bytes
RangesOf(b, starts, width) ==
    [k \in DOMAIN starts |->
        [from |-> starts[k], to |-> starts[k] + 2 + width * U16At(b, starts[k])]]

\* The table of files, then every file's, section's and property's record
RecordRanges(b) ==
    RangesOf(b, <<IndexStart(b)>>, 6) \o RangesOf(b, StoredFileStarts(b), 6)
      \o RangesOf(b, StoredSectionStarts(b), 6) \o RangesOf(b, StoredPropertyStarts(b), 4)

\* No two of the ranges share a byte, and the last byte of all is at `end`
DisjointUpTo(ranges, end) ==
    /\ \A i, j \in DOMAIN ranges :
          i < j => (ranges[i].to <= ranges[j].from \/ ranges[j].to <= ranges[i].from)
    /\ \A i \in DOMAIN ranges : ranges[i].to <= end
    /\ \E i \in DOMAIN ranges : ranges[i].to = end

\* C28: in every output of serialize_coalesced the records of the index
\* block (the table of files, each file's table of sections, each section's
\* table of properties, each property's list of values) occupy pairwise
\* disjoint byte ranges, and index_size is the end of the record that ends
\* last.
C28_DisjointRecords ==
    (pc # "new" /\ out.ok) =>
        /\ Len(RecordRanges(out.val))
             = 1 + Len(doc.files) + Len(AllSections(doc)) + Len(AllProperties(doc))
        /\ DisjointUpTo(RecordRanges(out.val),
                        IndexStart(out.val) + HeaderOf(out.val).index_size)

\* A file was written with a section of two properties and a property that
\* has a value: five records, one of them with a packed word
C28_Witness ==
    /\ pc = "encoded"
    /\ Len(RecordRanges(out.val)) >= 5
    /\ \E i \in DOMAIN AllSections(doc) : Len(AllSections(doc)[i].properties) >= 2
    /\ \E i \in DOMAIN AllProperties(doc) : Len(AllProperties(doc)[i].values) >= 1

----------------------------------------------------------------------------
(* Properties of the decoder's seeks                                       *)

\* The positions the decoder seeks to in the string table block: 8 + the
\* offset of each row
KeySeeks(b) == [e \in 1..U32At(b, 36) |-> 8 + U32At(b, 40 + 8 * (e - 1) + 4)]

\* Every position is one of a block of `size` bytes
AllBelow(targets, size) == \A k \in DOMAIN targets : targets[k] >= 0 /\ targets[k] < size

\* The positions the decoder seeks to in the index block: the file, section
\* and property records, counted from the start of the block
IndexSeeks(b, start) ==
    [k \in DOMAIN StoredFileStarts(b) |-> StoredFileStarts(b)[k] - start]
      \o [k \in DOMAIN StoredSectionStarts(b) |-> StoredSectionStarts(b)[k] - start]
      \o [k \in DOMAIN StoredPropertyStarts(b) |-> StoredPropertyStarts(b)[k] - start]

\* C29: for every file serialize_coalesced produces, every seek the decoder
\* performs (to a string-table entry at 8 + offset, to a file, section or
\* property record) targets a position strictly below the length of the
\* block it seeks in, so none fails with UnexpectedEof; also when the last
\* file has no sections, the last section no properties or the last
\* property no values.
C29_SeekTargets ==
    (pc # "new" /\ out.ok) =>
        /\ Len(KeySeeks(out.val)) = Cardinality(CollectKeys(doc))
        /\ AllBelow(KeySeeks(out.val), HeaderOf(out.val).string_table_size)
        /\ Len(IndexSeeks(out.val, IndexStart(out.val)))
             = Len(doc.files) + Len(AllSections(doc)) + Len(AllProperties(doc))
        /\ AllBelow(IndexSeeks(out.val, IndexStart(out.val)), HeaderOf(out.val).index_size)
        /\ pc = "decoded" => res.ok

\* The file was decoded, and the record written last in it is empty: a file
\* without sections, a section without properties or a property without
\* values, behind another file that is not empty
C29_Witness ==
    /\ pc = "decoded" /\ res.ok
    /\ Len(doc.files) >= 2
    /\ doc.files[Len(doc.files)].sections = <<>>
    /\ Len(KeySeeks(out.val)) >= 2

----------------------------------------------------------------------------
(* Properties of a Tlk edited several times                                *)

\* No two entries of the list have the same id
DistinctIds(values) ==
    \A i, j \in DOMAIN values : values[i].id = values[j].id => i = j

\* The list the last call was made on grew by one entry or kept its length,
\* and the other list is as it was
OwnListOnly(before, after, male) ==
    /\ Len(IF male THEN after.male_values ELSE after.female_values)
          - Len(IF male THEN before.male_values ELSE before.female_values) \in {0, 1}
    /\ (IF male THEN after.female_values ELSE after.male_values)
          = (IF male THEN before.female_values ELSE before.male_values)

\* C30: starting from a Tlk whose male ids are pairwise distinct and whose
\* female ids are pairwise distinct, after any sequence of insert_male,
\* replace_male, insert_female and replace_female calls the ids of each list
\* are still pairwise distinct; each call changes the length of its own list
\* by at most one and leaves the other list unchanged.
C30_DistinctIds ==
    pc = "editing" =>
        /\ DistinctIds(tlk.male_values)
        /\ DistinctIds(tlk.female_values)
        /\ step.n > 0 =>
              OwnListOnly(step.before, tlk, step.op \in {"replace_male", "insert_male"})

\* After two calls or more an insert added an entry to a list that already
\* had two
C30_Witness ==
    /\ pc = "editing" /\ step.n >= 2
    /\ step.op = "insert_male"
    /\ Len(step.before.male_values) = 2
    /\ Len(tlk.male_values) = 3
    /\ tlk.female_values # <<>>

====
